---- MODULE Spec2Model ----
(***************************************************************************)
(* Model of the Commutatus task tracker: the time utilities                *)
(* (src/utils/time.ts, src/config/constants.ts), the task resolver and     *)
(* the Set Task ID command, the status bar of the extension, the auth      *)
(* manager, the error handler, the Add Time and Commit Time Log commands,  *)
(* the API client, the task view and the Set API Token command.  Each      *)
(* part has its own specification over the shared variables: Spec,         *)
(* ResolverSpec, TaskIdSpec, AuthSpec, CmdSpec, ApiSpec, HandlerSpec,      *)
(* WebviewSpec, TokenSpec and StatusBarSpec.                               *)
(*                                                                         *)
(* The workspace state (a Memento) is taken to be reliable, get and        *)
(* update never fail, except in StatusBarSpec, where a read may throw.     *)
(* The secret storage may fail on any call.  An input box returns what     *)
(* the user typed, accepted by validateInput or not.  Asynchronous work    *)
(* (a refresh of the task view, a handler of a branch change, the token    *)
(* load of activate, a command) takes one step from one await to the next. *)
(*                                                                         *)
(* A JavaScript string is a sequence of one-character strings, so that     *)
(* trimming, lower-casing, the regular expressions, parseInt/parseFloat    *)
(* and the template literals are computed character by character.         *)
(* JavaScript numbers are modelled as exact integers and fractions: every  *)
(* value reached within the bounds is far below 2^53.  For decimal hours   *)
(* of at most two fractional digits, which is what the bounds reach,       *)
(* hours * 60 is never half way between two integers, and Math.round of    *)
(* the floating-point product equals the rounding of the exact product.    *)
(* (With three fractional digits a tie exists: 1.025 * 60 evaluates to     *)
(* 61.499999999999993 in floating point and rounds to 61, not 62.)         *)
(***************************************************************************)
EXTENDS Integers, Sequences, FiniteSets

\* the time utilities
VARIABLES entry, calls, input, minutes, parsed, rounded, validation,
          formatted, confirmation
\* the task resolver and the Set Task ID command
VARIABLES git, hasContext, workspaceState, typed, rop, rret, manual,
          statusBar, currentBranch
\* the auth manager
VARIABLES secret, secretFails, aop, aret, hadFailedRead
\* the time-log commands
VARIABLES cmd, ui
\* the API client
VARIABLES baseUrl, authToken, lastSet, http, apiop, apiret
\* the task view and the asynchronous work of the extension
VARIABLES view, panel, refreshes, branchHandlers, tokenLoad, tokenCmd,
          submission

timeVars == <<entry, calls, input, minutes, parsed, rounded, validation,
              formatted, confirmation>>

resolverVars == <<git, hasContext, workspaceState, typed, rop, rret, manual,
                  statusBar, currentBranch>>

authVars == <<secret, secretFails, aop, aret, hadFailedRead>>

cmdVars == <<cmd, ui>>

apiVars == <<baseUrl, authToken, lastSet, http, apiop, apiret>>

extVars == <<view, panel, refreshes, branchHandlers, tokenLoad, tokenCmd,
             submission>>

vars == <<timeVars, resolverVars, authVars, cmdVars, apiVars, extVars>>

(***************************************************************************)
(* Bounds of the model.                                                    *)
(***************************************************************************)
\* longest enumerated free-form input string
MaxLen == 4
\* how far below 0 and above MAX_MINUTES_PER_ENTRY the integer arguments go
MaxOver == 20

(***************************************************************************)
(* src/config/constants.ts: TIME_LIMITS                                    *)
(***************************************************************************)
MAX_MINUTES_PER_ENTRY == 480
MAX_MINUTES_FOR_PURE_NUMBER == 480
QUARTER_HOUR_INTERVAL == 15
CONFIRMATION_THRESHOLD_MINUTES == 240

(***************************************************************************)
(* JavaScript values                                                       *)
(***************************************************************************)
null == [type |-> "null"]
undefined == [type |-> "undefined"]
Str(cs) == [type |-> "string", chars |-> cs]

typeof(v) == IF v.type = "null" THEN "object" ELSE v.type

\* ToBoolean: null, undefined and the empty string are falsy
Truthy(v) ==
    /\ v.type # "null"
    /\ v.type # "undefined"
    /\ (v.type = "string" => Len(v.chars) > 0)

DigitChars == <<"0", "1", "2", "3", "4", "5", "6", "7", "8", "9">>

\* \d of the regular expressions
IsDigit(c) == \E i \in 1..10 : DigitChars[i] = c

DigitVal(c) == (CHOOSE i \in 1..10 : DigitChars[i] = c) - 1

IsSpace(c) == c \in {" ", "\t", "\n"}

\* String.prototype.toLowerCase, per character
LowerChar(c) ==
    CASE c = "H" -> "h"
      [] c = "M" -> "m"
      [] c = "A" -> "a"
      [] OTHER -> c

toLowerCase(s) == [i \in 1..Len(s) |-> LowerChar(s[i])]

RECURSIVE TrimStart(_)
TrimStart(s) ==
    IF Len(s) > 0 /\ IsSpace(s[1]) THEN TrimStart(Tail(s)) ELSE s

RECURSIVE TrimEnd(_)
TrimEnd(s) ==
    IF Len(s) > 0 /\ IsSpace(s[Len(s)])
    THEN TrimEnd(SubSeq(s, 1, Len(s) - 1))
    ELSE s

\* String.prototype.trim
trim(s) == TrimEnd(TrimStart(s))

\* parseInt(digits, 10) of a captured \d+ group
RECURSIVE parseInt(_)
parseInt(ds) ==
    IF Len(ds) = 0 THEN 0
    ELSE parseInt(SubSeq(ds, 1, Len(ds) - 1)) * 10 + DigitVal(ds[Len(ds)])

\* String(n) of the template literals, n an integer
RECURSIVE NatToString(_)
NatToString(n) ==
    IF n < 10 THEN <<DigitChars[n + 1]>>
    ELSE NatToString(n \div 10) \o <<DigitChars[(n % 10) + 1]>>

NumToString(n) == IF n < 0 THEN <<"-">> \o NatToString(0 - n) ELSE NatToString(n)

\* Math.round(n / d) for integers n and d > 0: floor(n/d + 1/2)
MathRound(n, d) == (2 * n + d) \div (2 * d)

\* Math.floor(n / d) for integers n and d > 0
MathFloor(n, d) == n \div d

\* length of the longest run of digits of s that starts at position i
RECURSIVE DigitRun(_, _)
DigitRun(s, i) ==
    IF i <= Len(s) /\ IsDigit(s[i]) THEN 1 + DigitRun(s, i + 1) ELSE 0

CharAt(s, i) == IF i >= 1 /\ i <= Len(s) THEN s[i] ELSE ""

\* String.prototype.includes
Includes(s, t) ==
    \E i \in 1..(Len(s) - Len(t) + 1) : SubSeq(s, i, i + Len(t) - 1) = t

(***************************************************************************)
(* The regular expressions of parseTimeInput.  A match is the tuple of its *)
(* captured groups, NoMatch when the expression does not match.            *)
(***************************************************************************)
NoMatch == <<>>

\* trimmed.match(/^(\d{1,2}):(\d{2})$/)
timeMatch(s) ==
    LET n == Len(s) IN
    IF /\ n \in {4, 5}
       /\ s[n - 2] = ":"
       /\ \A i \in (1..n) \ {n - 2} : IsDigit(s[i])
    THEN <<SubSeq(s, 1, n - 3), SubSeq(s, n - 1, n)>>
    ELSE NoMatch

\* /(\d+(?:\.\d+)?)h/ tried at position i.  \d+ is greedy and giving back
\* digits never helps: the next character would be a digit, which is
\* neither "." nor "h".
hourMatchAt(s, i) ==
    LET d1 == DigitRun(s, i)
        j  == i + d1
        d2 == DigitRun(s, j + 1)
    IN  IF d1 = 0 THEN NoMatch
        ELSE IF CharAt(s, j) = "." /\ d2 > 0 /\ CharAt(s, j + 1 + d2) = "h"
             THEN <<SubSeq(s, i, j + d2)>>
        ELSE IF CharAt(s, j) = "h"
             THEN <<SubSeq(s, i, j - 1)>>
        ELSE NoMatch

\* trimmed.match(/(\d+(?:\.\d+)?)h/): the leftmost match
hourMatch(s) ==
    LET starts == {i \in 1..Len(s) : hourMatchAt(s, i) # NoMatch} IN
    IF starts = {} THEN NoMatch
    ELSE hourMatchAt(s, CHOOSE i \in starts : \A k \in starts : i <= k)

\* /(\d+)m/ tried at position i
minuteMatchAt(s, i) ==
    LET d == DigitRun(s, i) IN
    IF d > 0 /\ CharAt(s, i + d) = "m" THEN <<SubSeq(s, i, i + d - 1)>>
    ELSE NoMatch

\* trimmed.match(/(\d+)m/): the leftmost match
minuteMatch(s) ==
    LET starts == {i \in 1..Len(s) : minuteMatchAt(s, i) # NoMatch} IN
    IF starts = {} THEN NoMatch
    ELSE minuteMatchAt(s, CHOOSE i \in starts : \A k \in starts : i <= k)

\* trimmed.match(/^(\d+)$/)
numberMatch(s) ==
    IF Len(s) > 0 /\ \A i \in 1..Len(s) : IsDigit(s[i]) THEN <<s>>
    ELSE NoMatch

\* parseFloat of a captured group digits[.digits], as the exact fraction
\* num / den
parseFloat(g) ==
    LET d1 == DigitRun(g, 1) IN
    IF d1 = Len(g) THEN [num |-> parseInt(g), den |-> 1]
    ELSE LET frac == SubSeq(g, d1 + 2, Len(g)) IN
         [num |-> parseInt(SubSeq(g, 1, d1) \o frac),
          den |-> 10 ^ Len(frac)]

(***************************************************************************)
(* src/utils/time.ts                                                       *)
(***************************************************************************)
ParsedTime(m, orig) == [minutes |-> m, originalInput |-> orig]

\* parseHHMM with the bound on the minutes off by one (minutes <= 60)
parseHHMM_MinutesUpTo60(trimmed, orig) ==
    LET tm == timeMatch(trimmed) IN
    IF tm # NoMatch
    THEN LET hours == parseInt(tm[1])
             mins  == parseInt(tm[2])
         IN  IF hours >= 0 /\ mins >= 0 /\ mins <= 60
             THEN ParsedTime(hours * 60 + mins, orig)
             ELSE null
    ELSE null

\* the HH:MM branch; null when the input falls through to the next branch
parseHHMM(trimmed, orig) ==
    LET tm == timeMatch(trimmed) IN
    IF tm # NoMatch
    THEN LET hours == parseInt(tm[1])
             mins  == parseInt(tm[2])
         IN  IF hours >= 0 /\ mins >= 0 /\ mins < 60
             THEN ParsedTime(hours * 60 + mins, orig)
             ELSE null
    ELSE null

\* /(\d+)h/, an hour expression without the decimal part: the leftmost match
integerHourMatch(s) ==
    LET at(i) == LET d == DigitRun(s, i) IN
                 IF d > 0 /\ CharAt(s, i + d) = "h"
                 THEN <<SubSeq(s, i, i + d - 1)>> ELSE NoMatch
        starts == {i \in 1..Len(s) : at(i) # NoMatch}
    IN  IF starts = {} THEN NoMatch
        ELSE at(CHOOSE i \in starts : \A k \in starts : i <= k)

\* parseTokens that returns totalMinutes whether or not a token was found
parseTokens_NoTokenGuard(trimmed, orig) ==
    LET hm == hourMatch(trimmed)
        mm == minuteMatch(trimmed)
        fromHours ==
            IF hm # NoMatch
            THEN LET hours == parseFloat(hm[1])
                 IN  MathRound(hours.num * 60, hours.den)
            ELSE 0
        fromMinutes == IF mm # NoMatch THEN parseInt(mm[1]) ELSE 0
    IN  ParsedTime(fromHours + fromMinutes, orig)

\* parseTokens whose hour expression accepts whole hours only
parseTokens_IntegerHours(trimmed, orig) ==
    LET hm == integerHourMatch(trimmed)
        mm == minuteMatch(trimmed)
        fromHours == IF hm # NoMatch THEN parseInt(hm[1]) * 60 ELSE 0
        fromMinutes == IF mm # NoMatch THEN parseInt(mm[1]) ELSE 0
    IN  IF hm # NoMatch \/ mm # NoMatch
        THEN ParsedTime(fromHours + fromMinutes, orig)
        ELSE null

\* the hours-and-minutes branch ("1h 30m", "2h", "45m")
parseTokens(trimmed, orig) ==
    LET hm == hourMatch(trimmed)
        mm == minuteMatch(trimmed)
        fromHours ==
            IF hm # NoMatch
            THEN LET hours == parseFloat(hm[1])
                 IN  MathRound(hours.num * 60, hours.den)
            ELSE 0
        fromMinutes == IF mm # NoMatch THEN parseInt(mm[1]) ELSE 0
        totalMinutes == fromHours + fromMinutes
    IN  IF hm # NoMatch \/ mm # NoMatch
        THEN ParsedTime(totalMinutes, orig)
        ELSE null

\* parsePureNumber with a strict upper bound (minutes < 480)
parsePureNumber_StrictLimit(trimmed, orig) ==
    LET nm == numberMatch(trimmed) IN
    IF nm # NoMatch
    THEN LET mins == parseInt(nm[1]) IN
         IF mins >= 0 /\ mins < MAX_MINUTES_FOR_PURE_NUMBER
         THEN ParsedTime(mins, orig)
         ELSE null
    ELSE null

\* the pure-number branch
parsePureNumber(trimmed, orig) ==
    LET nm == numberMatch(trimmed) IN
    IF nm # NoMatch
    THEN LET mins == parseInt(nm[1]) IN
         IF mins >= 0 /\ mins <= MAX_MINUTES_FOR_PURE_NUMBER
         THEN ParsedTime(mins, orig)
         ELSE null
    ELSE null

\* parseTimeInput that keeps the trimmed, lower-cased text as originalInput
parseTimeInput_TrimmedOriginal(in) ==
    IF ~Truthy(in) \/ typeof(in) # "string" THEN null
    ELSE LET trimmed == toLowerCase(trim(in.chars))
             byTime   == parseHHMM(trimmed, Str(trimmed))
             byTokens == parseTokens(trimmed, Str(trimmed))
         IN  IF byTime # null THEN byTime
             ELSE IF byTokens # null THEN byTokens
             ELSE parsePureNumber(trimmed, Str(trimmed))

parseTimeInput(in) ==
    IF ~Truthy(in) \/ typeof(in) # "string" THEN null
    ELSE LET trimmed == toLowerCase(trim(in.chars))
             byTime   == parseHHMM(trimmed, in)
             byTokens == parseTokens(trimmed, in)
         IN  IF byTime # null THEN byTime
             ELSE IF byTokens # null THEN byTokens
             ELSE parsePureNumber(trimmed, in)

\* roundToNearestQuarterHour with Math.floor in place of Math.round
roundToNearestQuarterHour_Floor(m) ==
    MathFloor(m, QUARTER_HOUR_INTERVAL) * QUARTER_HOUR_INTERVAL

roundToNearestQuarterHour(m) ==
    MathRound(m, QUARTER_HOUR_INTERVAL) * QUARTER_HOUR_INTERVAL

\* validateTimeEntry that rejects the maximum itself (minutes >= 480)
validateTimeEntry_RejectsMax(m) ==
    IF m <= 0 THEN [isValid |-> FALSE, roundedMinutes |-> 0]
    ELSE IF m >= MAX_MINUTES_PER_ENTRY
    THEN [isValid |-> FALSE,
          roundedMinutes |-> 0,
          warning |-> [text |-> "Time entries cannot exceed",
                       minutes |-> MAX_MINUTES_PER_ENTRY,
                       hours |-> MathFloor(MAX_MINUTES_PER_ENTRY, 60)]]
    ELSE LET r == roundToNearestQuarterHour(m) IN
         IF r # m
         THEN [isValid |-> TRUE,
               roundedMinutes |-> r,
               warning |-> [text |-> "Time rounded to",
                            minutes |-> r,
                            nearest |-> QUARTER_HOUR_INTERVAL]]
         ELSE [isValid |-> TRUE, roundedMinutes |-> r]

\* validateTimeEntry that lets zero through (minutes < 0)
validateTimeEntry_AcceptsZero(m) ==
    IF m < 0 THEN [isValid |-> FALSE, roundedMinutes |-> 0]
    ELSE IF m > MAX_MINUTES_PER_ENTRY
    THEN [isValid |-> FALSE,
          roundedMinutes |-> 0,
          warning |-> [text |-> "Time entries cannot exceed",
                       minutes |-> MAX_MINUTES_PER_ENTRY,
                       hours |-> MathFloor(MAX_MINUTES_PER_ENTRY, 60)]]
    ELSE LET r == roundToNearestQuarterHour(m) IN
         IF r # m
         THEN [isValid |-> TRUE,
               roundedMinutes |-> r,
               warning |-> [text |-> "Time rounded to",
                            minutes |-> r,
                            nearest |-> QUARTER_HOUR_INTERVAL]]
         ELSE [isValid |-> TRUE, roundedMinutes |-> r]

validateTimeEntry(m) ==
    IF m <= 0 THEN [isValid |-> FALSE, roundedMinutes |-> 0]
    ELSE IF m > MAX_MINUTES_PER_ENTRY
    THEN [isValid |-> FALSE,
          roundedMinutes |-> 0,
          warning |-> [text |-> "Time entries cannot exceed",
                       minutes |-> MAX_MINUTES_PER_ENTRY,
                       hours |-> MathFloor(MAX_MINUTES_PER_ENTRY, 60)]]
    ELSE LET r == roundToNearestQuarterHour(m) IN
         IF r # m
         THEN [isValid |-> TRUE,
               roundedMinutes |-> r,
               warning |-> [text |-> "Time rounded to",
                            minutes |-> r,
                            nearest |-> QUARTER_HOUR_INTERVAL]]
         ELSE [isValid |-> TRUE, roundedMinutes |-> r]

\* formatMinutes that rounds the hours instead of flooring them
formatMinutes_RoundedHours(m) ==
    IF m < 60 THEN NumToString(m) \o <<"m">>
    ELSE LET hours == MathRound(m, 60)
             remainingMinutes == m % 60
         IN  IF remainingMinutes = 0 THEN NumToString(hours) \o <<"h">>
             ELSE NumToString(hours) \o <<"h", " ">>
                  \o NumToString(remainingMinutes) \o <<"m">>

\* formatMinutes whose first test is off by one (minutes <= 60)
formatMinutes_SixtyAsMinutes(m) ==
    IF m <= 60 THEN NumToString(m) \o <<"m">>
    ELSE LET hours == MathFloor(m, 60)
             remainingMinutes == m % 60
         IN  IF remainingMinutes = 0 THEN NumToString(hours) \o <<"h">>
             ELSE NumToString(hours) \o <<"h", " ">>
                  \o NumToString(remainingMinutes) \o <<"m">>

formatMinutes(m) ==
    IF m < 60 THEN NumToString(m) \o <<"m">>
    ELSE LET hours == MathFloor(m, 60)
             remainingMinutes == m % 60
         IN  IF remainingMinutes = 0 THEN NumToString(hours) \o <<"h">>
             ELSE NumToString(hours) \o <<"h", " ">>
                  \o NumToString(remainingMinutes) \o <<"m">>

\* requiresConfirmation with a strict threshold (minutes > 240)
requiresConfirmation_Strict(m) == m > CONFIRMATION_THRESHOLD_MINUTES

requiresConfirmation(m) == m >= CONFIRMATION_THRESHOLD_MINUTES

(***************************************************************************)
(* The calls.  A caller picks one function of the module and its argument  *)
(* (entry, input, minutes); the function is applied and its result stored. *)
(* formatMinutes may then be applied to the result of                      *)
(* roundToNearestQuarterHour, and parseTimeInput to the text formatMinutes *)
(* returned.                                                               *)
(***************************************************************************)
Alphabet == {"0", "1", "5", "6", ":", ".", "h", "H", "m", " ", "a"}

\* every string over Alphabet of at most MaxLen characters
BoundedStrings == UNION {[1..n -> Alphabet] : n \in 0..MaxLen}

\* the inputs of the tests and of the documentation
ExampleStrings ==
    {<<"9", "0">>,
     <<"2", "h">>,
     <<"4", "5", "m">>,
     <<"1", "h", " ", "3", "0", "m">>,
     <<"0", "1", ":", "3", "0">>,
     <<"1", ".", "5", "h">>,
     <<"i", "n", "v", "a", "l", "i", "d">>,
     <<"a", "b", "c">>,
     <<"a", "b", ":", "c", "d">>,
     <<"2", "5", ":", "6", "1">>,
     <<"1", "2", ":", "6", "0">>,
     <<"1", "2", ":", "9", "9">>,
     <<" ", " ", " ">>,
     <<"5", "0", "0">>,
     <<"4", "8", "0">>,
     <<"4", "8", "1">>,
     \* ' 2H 15M '
     <<" ", "2", "H", " ", "1", "5", "M", " ">>,
     <<"2", "3", ":", "5", "9">>}

ParseInputs ==
    {Str(cs) : cs \in BoundedStrings \cup ExampleStrings}
        \cup {null, undefined}

MinuteArgs == (0 - MaxOver)..(MAX_MINUTES_PER_ENTRY + MaxOver)

Functions == {"parseTimeInput", "roundToNearestQuarterHour",
              "validateTimeEntry", "formatMinutes", "requiresConfirmation"}

NoValidation == [isValid |-> FALSE, roundedMinutes |-> 0]

Last(s) == s[Len(s)]

\* no call has returned yet
NoReturn == [outcome |-> "none"]

\* git rev-parse fails (no repository, no git)
GitFailure == [ok |-> FALSE]

\* createStatusBarItem: not shown until show() is called; the
\* commutatus-tracker.hasActiveTask context is unset
NewStatusBarItem ==
    [visible |-> FALSE, text |-> <<>>, tooltip |-> <<>>,
     hasActiveTask |-> FALSE]

\* no resolver is in use: the time utilities are independent of it
ResolverIdle ==
    /\ git = GitFailure
    /\ hasContext = FALSE
    /\ workspaceState = undefined
    /\ typed = undefined
    /\ rop = "none"
    /\ rret = NoReturn
    /\ manual = null
    /\ statusBar = NewStatusBarItem
    /\ currentBranch = <<>>

\* no auth manager is in use
AuthIdle ==
    /\ secret = undefined
    /\ secretFails = FALSE
    /\ aop = "none"
    /\ aret = NoReturn
    /\ hadFailedRead = FALSE

\* no command is running
CmdIdle ==
    /\ cmd = [pc |-> "idle"]
    /\ ui = <<>>

\* no API client is in use
ApiIdle ==
    /\ baseUrl = <<>>
    /\ authToken = null
    /\ lastSet = NoReturn
    /\ http = <<>>
    /\ apiop = "none"
    /\ apiret = NoReturn

\* a webview that was not created
NoWebview == [kind |-> "none"]

\* no task view is open and no asynchronous work is under way
ExtIdle ==
    /\ view = NoWebview
    /\ panel = NoWebview
    /\ refreshes = <<>>
    /\ branchHandlers = <<>>
    /\ tokenLoad = [pc |-> "idle"]
    /\ tokenCmd = [pc |-> "idle"]
    /\ submission = [pc |-> "idle"]

Init ==
    /\ entry \in Functions
    /\ calls = <<>>
    /\ IF entry = "parseTimeInput"
       THEN input \in ParseInputs /\ minutes = 0
       ELSE input = null /\ minutes \in MinuteArgs
    /\ parsed = null
    /\ rounded = 0
    /\ validation = NoValidation
    /\ formatted = <<>>
    /\ confirmation = FALSE
    /\ ResolverIdle /\ AuthIdle /\ CmdIdle /\ ApiIdle /\ ExtIdle

\* parseTimeInput(input), or parseTimeInput of the text just formatted
ParseTimeInput ==
    /\ \/ calls = <<>> /\ entry = "parseTimeInput"
       \/ calls # <<>> /\ Last(calls) = "formatMinutes"
    /\ parsed' = parseTimeInput(IF calls = <<>> THEN input ELSE Str(formatted))
    /\ calls' = Append(calls, "parseTimeInput")
    /\ UNCHANGED <<entry, input, minutes, rounded, validation, formatted,
                   confirmation>>
    /\ UNCHANGED <<resolverVars, authVars, cmdVars, apiVars, extVars>>

RoundToNearestQuarterHour ==
    /\ calls = <<>> /\ entry = "roundToNearestQuarterHour"
    /\ rounded' = roundToNearestQuarterHour(minutes)
    /\ calls' = Append(calls, "roundToNearestQuarterHour")
    /\ UNCHANGED <<entry, input, minutes, parsed, validation, formatted,
                   confirmation>>
    /\ UNCHANGED <<resolverVars, authVars, cmdVars, apiVars, extVars>>

ValidateTimeEntry ==
    /\ calls = <<>> /\ entry = "validateTimeEntry"
    /\ validation' = validateTimeEntry(minutes)
    /\ calls' = Append(calls, "validateTimeEntry")
    /\ UNCHANGED <<entry, input, minutes, parsed, rounded, formatted,
                   confirmation>>
    /\ UNCHANGED <<resolverVars, authVars, cmdVars, apiVars, extVars>>

\* formatMinutes(minutes), or formatMinutes of the value just rounded
FormatMinutes ==
    /\ \/ calls = <<>> /\ entry = "formatMinutes"
       \/ calls = <<"roundToNearestQuarterHour">>
    /\ formatted' = formatMinutes(IF calls = <<>> THEN minutes ELSE rounded)
    /\ calls' = Append(calls, "formatMinutes")
    /\ UNCHANGED <<entry, input, minutes, parsed, rounded, validation,
                   confirmation>>
    /\ UNCHANGED <<resolverVars, authVars, cmdVars, apiVars, extVars>>

RequiresConfirmation ==
    /\ calls = <<>> /\ entry = "requiresConfirmation"
    /\ confirmation' = requiresConfirmation(minutes)
    /\ calls' = Append(calls, "requiresConfirmation")
    /\ UNCHANGED <<entry, input, minutes, parsed, rounded, validation,
                   formatted>>
    /\ UNCHANGED <<resolverVars, authVars, cmdVars, apiVars, extVars>>

Next ==
    \/ ParseTimeInput
    \/ RoundToNearestQuarterHour
    \/ ValidateTimeEntry
    \/ FormatMinutes
    \/ RequiresConfirmation

Spec == Init /\ [][Next]_vars

(***************************************************************************)
(* Vocabulary of the properties: the formats of the specification, stated  *)
(* on the text itself.                                                     *)
(***************************************************************************)
HasWarning(v) == "warning" \in DOMAIN v

IsParsedTime(v) == DOMAIN v = {"minutes", "originalInput"}

AllDigits(s) == Len(s) > 0 /\ \A i \in 1..Len(s) : IsDigit(s[i])

\* d is the decimal numeral of the natural number n
IsDecimalOf(d, n) ==
    /\ AllDigits(d)
    /\ Len(d) = 1 \/ d[1] # "0"
    /\ parseInt(d) = n

\* an integer or decimal number: digits, or digits "." digits
IsNumberText(s) ==
    \/ AllDigits(s)
    \/ \E k \in 2..(Len(s) - 1) :
          /\ s[k] = "."
          /\ AllDigits(SubSeq(s, 1, k - 1))
          /\ AllDigits(SubSeq(s, k + 1, Len(s)))

\* round(X * 60) for the number text X
HoursTextToMinutes(s) ==
    IF AllDigits(s) THEN parseInt(s) * 60
    ELSE LET k == CHOOSE k \in 2..(Len(s) - 1) : s[k] = "."
             whole == parseInt(SubSeq(s, 1, k - 1))
             frac  == SubSeq(s, k + 1, Len(s))
             scale == 10 ^ Len(frac)
             \* 60 * frac / scale, rounded half up
             part  == (2 * 60 * parseInt(frac) + scale) \div (2 * scale)
         IN  whole * 60 + part

\* the places <<i, j>> of the "<X>h" tokens of t: X = t[i..j], t[j+1] = "h"
HourTokens(t) ==
    {p \in (1..Len(t)) \X (1..Len(t)) :
        /\ p[1] <= p[2] /\ p[2] < Len(t)
        /\ IsNumberText(SubSeq(t, p[1], p[2]))
        /\ t[p[2] + 1] = "h"}

\* the places <<i, j>> of the "<Y>m" tokens of t
MinuteTokens(t) ==
    {p \in (1..Len(t)) \X (1..Len(t)) :
        /\ p[1] <= p[2] /\ p[2] < Len(t)
        /\ AllDigits(SubSeq(t, p[1], p[2]))
        /\ t[p[2] + 1] = "m"}

\* the token that starts first
Leftmost(tokens) == CHOOSE p \in tokens : \A q \in tokens : p[1] <= q[1]

\* t has the form H:MM, H of one or two digits and MM of two
IsHourColonMinute(t) ==
    /\ Len(t) \in {4, 5}
    /\ t[Len(t) - 2] = ":"
    /\ AllDigits(SubSeq(t, 1, Len(t) - 3))
    /\ AllDigits(SubSeq(t, Len(t) - 1, Len(t)))

HourPart(t) == parseInt(SubSeq(t, 1, Len(t) - 3))
MinutePart(t) == parseInt(SubSeq(t, Len(t) - 1, Len(t)))

\* the text is in none of the three recognized formats
MatchesNoFormat(t) ==
    /\ ~(IsHourColonMinute(t) /\ MinutePart(t) < 60)
    /\ HourTokens(t) = {}
    /\ MinuteTokens(t) = {}
    /\ ~(AllDigits(t) /\ parseInt(t) <= 480)

\* the call under examination is a direct call of f
Called(f) == calls = <<f>>

InputText == toLowerCase(trim(input.chars))

(***************************************************************************)
(* Properties                                                              *)
(***************************************************************************)

\* C1: for every integer m with 1 <= m <= 480, validateTimeEntry(m) is
\* valid with roundedMinutes = roundToNearestQuarterHour(m), and carries a
\* warning exactly when roundedMinutes differs from m; a multiple of 15 is
\* returned unchanged and without a warning.
C1_ValidateInRange ==
    (Called("validateTimeEntry") /\ minutes >= 1 /\ minutes <= 480) =>
        /\ validation.isValid = TRUE
        /\ validation.roundedMinutes = roundToNearestQuarterHour(minutes)
        /\ HasWarning(validation) <=> (validation.roundedMinutes # minutes)
        /\ minutes % 15 = 0 =>
              validation.roundedMinutes = minutes /\ ~HasWarning(validation)

C1_Witness ==
    /\ Called("validateTimeEntry")
    /\ minutes = 23
    /\ validation.isValid
    /\ validation.roundedMinutes = 30
    /\ HasWarning(validation)

\* C2: validateTimeEntry rejects m <= 0 with roundedMinutes = 0 and no
\* warning, and m > 480 with roundedMinutes = 0 and the warning that states
\* the 480-minute (8-hour) maximum.
C2_ValidateOutOfRange ==
    Called("validateTimeEntry") =>
        /\ minutes <= 0 =>
              /\ validation.isValid = FALSE
              /\ validation.roundedMinutes = 0
              /\ ~HasWarning(validation)
        /\ minutes > 480 =>
              /\ validation.isValid = FALSE
              /\ validation.roundedMinutes = 0
              /\ HasWarning(validation)
              /\ validation.warning.text = "Time entries cannot exceed"
              /\ validation.warning.minutes = 480
              /\ validation.warning.hours = 8

C2_Witness ==
    /\ Called("validateTimeEntry")
    /\ minutes = 481
    /\ ~validation.isValid
    /\ HasWarning(validation)

C3_Examples ==
    {<<"i", "n", "v", "a", "l", "i", "d">>,
     <<"a", "b", "c">>,
     <<"a", "b", ":", "c", "d">>,
     <<"2", "5", ":", "6", "1">>,
     <<"1", "2", ":", "6", "0">>,
     <<"1", "2", ":", "9", "9">>}

\* C3: parseTimeInput always returns a value, null or a ParsedTime, and it
\* returns null when the input is not a string, is empty or whitespace
\* only, or is in none of the recognized formats ("invalid", "abc",
\* "ab:cd", "25:61", "12:60", "12:99").
C3_ParseFailuresAreNull ==
    Called("parseTimeInput") =>
        /\ parsed = null \/ IsParsedTime(parsed)
        /\ input.type # "string" => parsed = null
        /\ input.type = "string" =>
              /\ trim(input.chars) = <<>> => parsed = null
              /\ MatchesNoFormat(InputText) => parsed = null
              /\ input.chars \in C3_Examples => parsed = null

C3_Witness ==
    /\ Called("parseTimeInput")
    /\ input = Str(<<"2", "5", ":", "6", "1">>)
    /\ MatchesNoFormat(InputText)
    /\ parsed = null

C5_HourColonMinute ==
    (Called("parseTimeInput") /\ input.type = "string"
        /\ IsHourColonMinute(trim(input.chars))) =>
        LET t == trim(input.chars) IN
        IF MinutePart(t) < 60
        THEN parsed # null /\ parsed.minutes = HourPart(t) * 60 + MinutePart(t)
        ELSE parsed = null

C5_Witness ==
    /\ Called("parseTimeInput")
    /\ input = Str(<<"0", "1", ":", "3", "0">>)
    /\ parsed # null
    /\ parsed.minutes = 90

\* C6: an input whose trimmed text is all digits, of value n, parses to n
\* minutes when 0 <= n <= 480 and to null when n > 480 (480 is accepted,
\* 481 and 500 are rejected).
C6_PureInteger ==
    (Called("parseTimeInput") /\ input.type = "string"
        /\ AllDigits(trim(input.chars))) =>
        LET n == parseInt(trim(input.chars)) IN
        /\ IF n <= 480
           THEN parsed # null /\ parsed.minutes = n
           ELSE parsed = null
        /\ input.chars = <<"4", "8",
                           "0">> => parsed # null /\ parsed.minutes = 480
        /\ input.chars \in {<<"4", "8", "1">>, <<"5", "0",
                              "0">>} => parsed = null

C6_Witness ==
    /\ Called("parseTimeInput")
    /\ input = Str(<<"4", "8", "0">>)
    /\ parsed # null
    /\ parsed.minutes = 480

\* C7: for every integer m in [0, 480], parsing the text that formatMinutes
\* returns for roundToNearestQuarterHour(m) succeeds with exactly that
\* rounded value.
C7_RoundTrip ==
    (calls = <<"roundToNearestQuarterHour", "formatMinutes",
               "parseTimeInput">>
        /\ minutes >= 0 /\ minutes <= 480) =>
        /\ parsed # null
        /\ parsed.minutes = rounded

C7_Witness ==
    /\ calls = <<"roundToNearestQuarterHour", "formatMinutes",
                 "parseTimeInput">>
    /\ minutes = 83
    /\ rounded = 90
    /\ formatted = <<"1", "h", " ", "3", "0", "m">>
    /\ parsed # null
    /\ parsed.minutes = 90

\* C8: for every integer m >= 0, roundToNearestQuarterHour(m) is the
\* multiple of 15 nearest to m: divisible by 15, at most 7 away from m,
\* rounded down when m mod 15 <= 7 and up when m mod 15 >= 8, and equal to
\* m when m is a multiple of 15 (7 -> 0, 8 -> 15, 22 -> 15, 23 -> 30,
\* 477 -> 480).
C8_NearestQuarterHour ==
    (Called("roundToNearestQuarterHour") /\ minutes >= 0) =>
        /\ rounded % 15 = 0
        /\ rounded - minutes <= 7 /\ minutes - rounded <= 7
        /\ minutes % 15 <= 7 => rounded = minutes - (minutes % 15)
        /\ minutes % 15 >= 8 => rounded = minutes - (minutes % 15) + 15
        /\ minutes % 15 = 0 => rounded = minutes
        /\ minutes = 7 => rounded = 0
        /\ minutes = 8 => rounded = 15
        /\ minutes = 22 => rounded = 15
        /\ minutes = 23 => rounded = 30
        /\ minutes = 477 => rounded = 480

C8_Witness ==
    /\ Called("roundToNearestQuarterHour")
    /\ minutes = 477
    /\ rounded = 480

\* C9: for every integer m >= 0, formatMinutes(m) is "<m>m" when m < 60;
\* otherwise, with h = m div 60 and r = m mod 60, it is "<h>h" when r = 0
\* and "<h>h <r>m" when r > 0 (0 -> "0m", 45 -> "45m", 60 -> "1h",
\* 90 -> "1h 30m", 480 -> "8h", 495 -> "8h 15m").
C9_FormatMinutes ==
    (Called("formatMinutes") /\ minutes >= 0) =>
        LET n == Len(formatted)
            h == minutes \div 60
            r == minutes % 60
        IN  /\ minutes < 60 =>
                  /\ n >= 2 /\ formatted[n] = "m"
                  /\ IsDecimalOf(SubSeq(formatted, 1, n - 1), minutes)
            /\ (minutes >= 60 /\ r = 0) =>
                  /\ n >= 2 /\ formatted[n] = "h"
                  /\ IsDecimalOf(SubSeq(formatted, 1, n - 1), h)
            /\ (minutes >= 60 /\ r > 0) =>
                  \E k \in 2..(n - 3) :
                      /\ formatted[k] = "h" /\ formatted[k + 1] = " "
                      /\ formatted[n] = "m"
                      /\ IsDecimalOf(SubSeq(formatted, 1, k - 1), h)
                      /\ IsDecimalOf(SubSeq(formatted, k + 2, n - 1), r)
            /\ minutes = 0 => formatted = <<"0", "m">>
            /\ minutes = 45 => formatted = <<"4", "5", "m">>
            /\ minutes = 60 => formatted = <<"1", "h">>
            /\ minutes = 90 => formatted = <<"1", "h", " ", "3", "0", "m">>
            /\ minutes = 480 => formatted = <<"8", "h">>
            /\ minutes = 495 => formatted = <<"8", "h", " ", "1", "5", "m">>

C9_Witness ==
    /\ Called("formatMinutes")
    /\ minutes = 495
    /\ formatted = <<"8", "h", " ", "1", "5", "m">>

\* C10: requiresConfirmation(m) is true exactly when m >= 240, for every
\* integer m (239 -> false, 240 -> true).
C10_ConfirmationThreshold ==
    Called("requiresConfirmation") =>
        /\ confirmation <=> (minutes >= 240)
        /\ minutes = 239 => confirmation = FALSE
        /\ minutes = 240 => confirmation = TRUE

C10_Witness ==
    /\ Called("requiresConfirmation")
    /\ minutes = 240
    /\ confirmation = TRUE

\* C11: every ParsedTime that parseTimeInput returns is well formed: minutes
\* is an integer >= 0 (also for decimal hours) and originalInput is exactly
\* the value the caller passed, untrimmed and in its own letter case.
C11_ParsedTimeWellFormed ==
    (calls # <<>> /\ Last(calls) = "parseTimeInput" /\ parsed # null) =>
        /\ IsParsedTime(parsed)
        /\ parsed.minutes \in Nat
        /\ parsed.originalInput =
              (IF Called("parseTimeInput") THEN input ELSE Str(formatted))

C11_Witness ==
    /\ Called("parseTimeInput")
    \* ' 2H 15M '
    /\ input = Str(<<" ", "2", "H", " ", "1", "5", "M", " ">>)
    /\ parsed # null
    /\ parsed.minutes = 135
    /\ parsed.originalInput = input

(***************************************************************************)
(* The task resolver (GitBranchTaskResolver) and the Set Task ID command.  *)
(*                                                                         *)
(* git is the outcome of `git rev-parse --abbrev-ref HEAD`: a failure, or  *)
(* its standard output.  workspaceState is the value kept under            *)
(* STORAGE_KEYS.CURRENT_TASK_ID; the host's Memento is taken to work (get  *)
(* returns what update stored, neither fails), so the catch block of       *)
(* getCurrentTaskId is never entered.  typed is what the user enters in an *)
(* input box, undefined when the box is dismissed; the box hands the text  *)
(* back whether or not validateInput accepts it, as the test doubles do.   *)
(***************************************************************************)
\* longest enumerated branch name and task-ID text
MaxBranchLen == 4

Bool(b) == [type |-> "boolean", value |-> b]

UpperChars == {"A", "B", "C", "D", "E", "F", "G", "H", "I", "J", "K", "L",
    "M",
               "N", "O", "P", "Q", "R", "S", "T", "U", "V", "W", "X", "Y",
                   "Z"}

IsUpper(c) == c \in UpperChars

\* length of the run of uppercase letters of s that starts at position i
RECURSIVE UpperRun(_, _)
UpperRun(s, i) ==
    IF i <= Len(s) /\ IsUpper(s[i]) THEN 1 + UpperRun(s, i + 1) ELSE 0

\* /[A-Z]+-\d+/ tried at position i.  [A-Z]+ takes the whole run of
\* letters; giving letters back never helps, since the character after a
\* shorter prefix is a letter and not the hyphen.  \d+ takes the whole run
\* of digits.
taskIdMatchAt(s, i) ==
    LET u == UpperRun(s, i)
        d == DigitRun(s, i + u + 1)
    IN IF u >= 1 /\ CharAt(s, i + u) = "-" /\ d >= 1
       THEN <<SubSeq(s, i, i + u + d)>>
       ELSE NoMatch

TASK_ID_REGEX_LastMatch(s) ==
    LET starts == {i \in 1..Len(s) : taskIdMatchAt(s, i) # NoMatch}
    IN IF starts = {} THEN NoMatch
       ELSE taskIdMatchAt(s, CHOOSE i \in starts : \A j \in starts : i >= j)

\* s.match(TASK_ID_REGEX): the match at the first position that has one
TASK_ID_REGEX(s) ==
    LET starts == {i \in 1..Len(s) : taskIdMatchAt(s, i) # NoMatch}
    IN IF starts = {} THEN NoMatch
       ELSE taskIdMatchAt(s, CHOOSE i \in starts : \A j \in starts : i <= j)

\* /^[A-Z]+-\d+$/ of setTaskIdCommand
taskIdRegex(s) ==
    LET m == taskIdMatchAt(s, 1)
    IN IF m # NoMatch /\ Len(m[1]) = Len(s) THEN m ELSE NoMatch

Git(branch) == [ok |-> TRUE, stdout |-> branch \o <<"\n">>]

getTaskIdFromGitBranch(g) ==
    IF ~g.ok THEN null
    ELSE LET branchName == trim(g.stdout)
         IN IF branchName = <<>> \/ branchName = <<"H", "E", "A", "D">>
            THEN null
            ELSE LET match == TASK_ID_REGEX(branchName)
                 IN IF match # NoMatch THEN Str(match[1]) ELSE null

getSessionTaskId(ctx, stored) ==
    IF ctx
    THEN IF Truthy(stored) THEN stored ELSE null
    ELSE null

\* the value under CURRENT_TASK_ID after setTaskId(taskId)
setTaskId(ctx, stored, taskId) == IF ctx THEN taskId ELSE stored

getCurrentTaskId_StoredFirst(g, ctx, stored) ==
    LET branchTaskId == getTaskIdFromGitBranch(g)
        session == getSessionTaskId(ctx, stored)
    IN IF Truthy(session)
       THEN [outcome |-> "resolved", value |-> session,
             branchTaskId |-> branchTaskId, stored |-> stored]
       ELSE [outcome |-> "resolved", value |-> branchTaskId,
             branchTaskId |-> branchTaskId,
             stored |-> IF Truthy(branchTaskId)
                        THEN setTaskId(ctx, stored, branchTaskId) ELSE stored]

\* the value returned, the local branchTaskId, and the stored value left
getCurrentTaskId(g, ctx, stored) ==
    LET branchTaskId == getTaskIdFromGitBranch(g)
    IN IF Truthy(branchTaskId)
       THEN [outcome |-> "resolved", value |-> branchTaskId,
             branchTaskId |-> branchTaskId,
             stored |-> setTaskId(ctx, stored, branchTaskId)]
       ELSE [outcome |-> "resolved", value |-> getSessionTaskId(ctx, stored),
             branchTaskId |-> branchTaskId, stored |-> stored]

isValidTaskId(taskId) == TASK_ID_REGEX(taskId) # NoMatch

\* validateInput of promptForTaskId: null accepts, a message refuses
promptValidateInput(value) ==
    IF value = <<>>
    \* 'Task ID is required'
    THEN Str(<<"T", "a", "s", "k", " ", "I", "D", " ", "i", "s", " ", "r",
               "e", "q", "u", "i", "r", "e", "d">>)
    ELSE IF ~isValidTaskId(value)
         \* 'Invalid format. Expected format: [A-Z]+-[0-9]+ (e.g., TRIP-142)'
         THEN Str(<<"I", "n", "v", "a", "l", "i", "d", " ", "f", "o", "r",
                    "m", "a", "t", ".", " ", "E", "x", "p", "e", "c", "t",
                    "e", "d", " ", "f", "o", "r", "m", "a", "t", ":", " ",
                    "[", "A", "-", "Z", "]", "+", "-", "[", "0", "-", "9",
                    "]", "+", " ", "(", "e", ".", "g", ".", ",", " ", "T",
                    "R", "I", "P", "-", "1", "4", "2", ")">>)
         ELSE null

\* promptForTaskId, answer being what the input box hands back
promptForTaskId(ctx, stored, answer) ==
    IF Truthy(answer)
    THEN [outcome |-> "resolved", value |-> answer,
          stored |-> setTaskId(ctx, stored, answer)]
    ELSE [outcome |-> "resolved", value |-> null, stored |-> stored]

\* validateInput of setTaskIdCommand
setTaskIdValidateInput(value) ==
    IF value = <<>> \/ trim(value) = <<>>
    \* 'Task ID is required'
    THEN Str(<<"T", "a", "s", "k", " ", "I", "D", " ", "i", "s", " ", "r",
               "e", "q", "u", "i", "r", "e", "d">>)
    ELSE IF taskIdRegex(trim(value)) = NoMatch
         \* 'Invalid format. Expected format: [A-Z]+-[0-9]+ (e.g., TRIP-142)'
         THEN Str(<<"I", "n", "v", "a", "l", "i", "d", " ", "f", "o", "r",
                    "m", "a", "t", ".", " ", "E", "x", "p", "e", "c", "t",
                    "e", "d", " ", "f", "o", "r", "m", "a", "t", ":", " ",
                    "[", "A", "-", "Z", "]", "+", "-", "[", "0", "-", "9",
                    "]", "+", " ", "(", "e", ".", "g", ".", ",", " ", "T",
                    "R", "I", "P", "-", "1", "4", "2", ")">>)
         ELSE null

\* the emoji U+2705 of the success message, one character
CheckMark == "U+2705"

\* setTaskIdCommand: the stored value left, the information messages shown
\* and the commands executed
setTaskIdCommand(g, ctx, stored, answer) ==
    LET current == getCurrentTaskId(g, ctx, stored)
    IN IF ~Truthy(answer)
       THEN [outcome |-> "resolved", value |-> undefined,
             stored |-> current.stored, info |-> <<>>, executed |-> <<>>]
       ELSE LET taskId == trim(answer.chars)
            IN [outcome |-> "resolved", value |-> undefined,
                stored |-> setTaskId(ctx, current.stored, Str(taskId)),
                \* ' Task ID set to '
                info |-> <<<<CheckMark>> \o <<" ", "T", "a", "s", "k", " ",
                    "I", "D", " ", "s", "e", "t", " ", "t", "o",
                    " ">> \o taskId>>,
                executed |-> <<"commutatus-tracker.showTask">>]

\* the emoji U+1F516 of the status bar text, one character
Bookmark == "U+1F516"

\* updateStatusBar of activate after await getCurrentTaskId(): the try
\* block shows or hides the item and sets the hasActiveTask context, the
\* catch block of a rejection only hides the item
statusBarAfter(r, bar) ==
    IF r.outcome = "rejected"
    THEN [bar EXCEPT !.visible = FALSE]
    ELSE IF Truthy(r.value)
    THEN [visible |-> TRUE,
          text |-> <<Bookmark, " ">> \o r.value.chars,
          \* 'Click to open task '
          tooltip |-> <<"C", "l", "i", "c", "k", " ", "t", "o",
                        " ", "o", "p", "e", "n", " ", "t", "a",
                        "s", "k", " ">> \o r.value.chars,
          hasActiveTask |-> TRUE]
    ELSE [bar EXCEPT !.visible = FALSE, !.hasActiveTask = FALSE]

\* updateStatusBar of activate: the status bar item and the stored value left
updateStatusBar(g, ctx, stored, bar) ==
    LET r == getCurrentTaskId(g, ctx, stored)
    IN [stored |-> r.stored, bar |-> statusBarAfter(r, bar)]

\* repo.state.HEAD?.name || '' of the git extension: the branch checked out,
\* empty when HEAD is detached or there is no repository
HeadName(g) ==
    IF g.ok /\ trim(g.stdout) # <<"H", "E", "A", "D">>
    THEN trim(g.stdout)
    ELSE <<>>

\* updateCurrentBranch of activate, run on every change of the repository
\* state: the status bar is updated when the branch name is new.  (The
\* refresh of the task view that follows is not part of this state.)
updateCurrentBranch(g, ctx, stored, bar, current) ==
    LET newBranch == HeadName(g)
    IN IF newBranch # current /\ newBranch # <<>>
       THEN LET u == updateStatusBar(g, ctx, stored, bar)
            IN [currentBranch |-> newBranch, stored |-> u.stored, bar |-> u.bar]
       ELSE [currentBranch |-> current, stored |-> stored, bar |-> bar]

(***************************************************************************)
(* The resolver's environment: branch names, typed texts, stored values.   *)
(***************************************************************************)
BranchAlphabet == {"A", "-", "1", "a"}

BoundedBranches == UNION {[1..n -> BranchAlphabet] : n \in 0..MaxBranchLen}

\* the branch names of the documentation, and a detached HEAD
ExampleBranches ==
    {<<"N", "C", "P", "-", "2">>,
     \* 'feature/NCP-2'
     <<"f", "e", "a", "t", "u", "r", "e", "/", "N", "C", "P", "-", "2">>,
     \* 'bugfix/TRIP-142-query'
     <<"b", "u", "g", "f", "i", "x", "/", "T", "R", "I", "P", "-", "1", "4",
       "2", "-", "q", "u", "e", "r", "y">>,
     <<"H", "E", "A", "D">>,
     <<"m", "a", "i", "n">>,
     \* 'TRIP-142'
     <<"T", "R", "I", "P", "-", "1", "4", "2">>}

GitOutcomes ==
    {Git(b) : b \in BoundedBranches \cup ExampleBranches} \cup {GitFailure}

\* the branches the user switches to
SwitchTargets ==
    \* 'feature/B-1'
    {Git(<<"m", "a", "i", "n">>), Git(<<"A", "-", "1">>), Git(<<"f", "e",
           "a", "t", "u", "r", "e", "/", "B", "-", "1">>),
     Git(<<"H", "E", "A", "D">>), GitFailure}

\* the task IDs of the validation tests
ExampleTaskIds ==
    \* 'TRIP-142'
    {<<"T", "R", "I", "P", "-", "1", "4", "2">>,
     <<"B", "U", "G", "-", "1", "2", "3">>,
     \* 'trip-142'
     <<"t", "r", "i", "p", "-", "1", "4", "2">>,
     <<"T", "R", "I", "P", "1", "4", "2">>,
     <<"T", "R", "I", "P", "-">>,
     <<"-", "1", "4", "2">>,
     \* 'feature/TRIP-142'
     <<"f", "e", "a", "t", "u", "r", "e", "/", "T", "R", "I", "P", "-", "1",
       "4", "2">>,
     <<" ", "A", "-", "1", " ">>}

TypedTexts ==
    {Str(t) : t \in BoundedBranches \cup ExampleTaskIds} \cup {undefined}

\* what the user enters in the input box of a command
TypedAnswers ==
    {undefined, Str(<<"A", "-", "1">>), Str(<<"B", "-", "1">>), Str(<<" ",
                      "B", "-", "1", " ">>),
     Str(<<"b", "1">>)}

StoredValues == {undefined, Str(<<>>), Str(<<"A", "-", "1">>), Str(<<"B",
    "-", "1">>)}

\* the other components are not in use
ResolverOnly ==
    /\ entry = "none" /\ calls = <<>> /\ input = null /\ minutes = 0
    /\ parsed = null /\ rounded = 0 /\ validation = NoValidation
    /\ formatted = <<>> /\ confirmation = FALSE
    /\ AuthIdle /\ CmdIdle /\ ApiIdle /\ ExtIdle

\* the extension activated in a workspace, on one of the branches the user
\* switches to: activate has run its first updateStatusBar, and its first
\* updateCurrentBranch if the git extension was already active
ResolverInit ==
    /\ git \in SwitchTargets
    /\ typed \in TypedAnswers
    /\ hasContext \in BOOLEAN
    /\ \E stored \in StoredValues :
           LET u == updateStatusBar(git, hasContext, stored, NewStatusBarItem)
           IN /\ workspaceState = u.stored
              /\ statusBar = u.bar
    /\ currentBranch \in {<<>>, HeadName(git)}
    /\ rop = "none"
    /\ rret = NoReturn
    /\ manual = null
    /\ ResolverOnly

\* every bounded branch name, and every bounded text to validate
TaskIdInit ==
    /\ \/ git \in GitOutcomes /\ typed = undefined
       \/ git = GitFailure /\ typed \in TypedTexts
    /\ hasContext \in BOOLEAN
    /\ workspaceState \in StoredValues
    /\ rop = "none"
    /\ rret = NoReturn
    /\ manual = null
    /\ statusBar = NewStatusBarItem
    /\ currentBranch = <<>>
    /\ ResolverOnly

\* a call of getCurrentTaskId, recorded with the git outcome it saw
GetCurrentTaskId ==
    LET r == getCurrentTaskId(git, hasContext, workspaceState)
    IN /\ rop' = "getCurrentTaskId"
       /\ rret' = [outcome |-> r.outcome, value |-> r.value,
                   branchTaskId |-> r.branchTaskId, git |-> git,
                   before |-> workspaceState]
       /\ workspaceState' = r.stored
       /\ UNCHANGED <<git, hasContext, typed, manual, statusBar, currentBranch>>
       /\ UNCHANGED <<timeVars, authVars, cmdVars, apiVars, extVars>>

\* a call of the static isValidTaskId on the typed text
IsValidTaskId ==
    /\ typed.type = "string"
    /\ rop' = "isValidTaskId"
    /\ rret' = [outcome |-> "returned",
                value |-> Bool(isValidTaskId(typed.chars)), arg |-> typed]
    /\ UNCHANGED <<git, hasContext, workspaceState, typed, manual, statusBar, currentBranch>>
    /\ UNCHANGED <<timeVars, authVars, cmdVars, apiVars, extVars>>

\* promptForTaskId, the user entering typed.  Setting an ID this way ends
\* an earlier manual override.
PromptForTaskId ==
    LET r == promptForTaskId(hasContext, workspaceState, typed)
    IN /\ rop' = "promptForTaskId"
       /\ rret' = [outcome |-> r.outcome, value |-> r.value, arg |-> typed]
       /\ workspaceState' = r.stored
       /\ manual' = IF Truthy(typed) THEN null ELSE manual
       /\ UNCHANGED <<git, hasContext, typed, statusBar, currentBranch>>
       /\ UNCHANGED <<timeVars, authVars, cmdVars, apiVars, extVars>>

\* setTaskIdCommand, the user entering typed.  manual remembers the ID the
\* user set when validateInput accepts the text.
SetTaskIdCommand ==
    LET r == setTaskIdCommand(git, hasContext, workspaceState, typed)
    IN /\ rop' = "setTaskIdCommand"
       /\ rret' = [outcome |-> r.outcome, value |-> r.value, arg |-> typed,
                   info |-> r.info, executed |-> r.executed]
       /\ workspaceState' = r.stored
       /\ manual' = IF ~Truthy(typed) THEN manual
                    ELSE IF setTaskIdValidateInput(typed.chars) = null
                         THEN Str(trim(typed.chars))
                         ELSE null
       /\ UNCHANGED <<git, hasContext, typed, statusBar, currentBranch>>
       /\ UNCHANGED <<timeVars, authVars, cmdVars, apiVars, extVars>>

\* the user checks out another branch (or git stops working)
SwitchBranch ==
    /\ \E g \in SwitchTargets : g # git /\ git' = g
    /\ manual' = null
    /\ UNCHANGED <<hasContext, workspaceState, typed, rop, rret, statusBar, currentBranch>>
    /\ UNCHANGED <<timeVars, authVars, cmdVars, apiVars, extVars>>

\* the git extension reports a change of the repository state
UpdateCurrentBranch ==
    LET u == updateCurrentBranch(git, hasContext, workspaceState, statusBar,
                                 currentBranch)
    IN /\ currentBranch' = u.currentBranch
       /\ workspaceState' = u.stored
       /\ statusBar' = u.bar
       /\ rop' = "updateCurrentBranch"
       /\ rret' = NoReturn
       /\ UNCHANGED <<git, hasContext, typed, manual>>
       /\ UNCHANGED <<timeVars, authVars, cmdVars, apiVars, extVars>>

\* the user enters another text
UserTypes ==
    /\ \E t \in TypedAnswers : t # typed /\ typed' = t
    /\ UNCHANGED <<git, hasContext, workspaceState, rop, rret, manual, statusBar, currentBranch>>
    /\ UNCHANGED <<timeVars, authVars, cmdVars, apiVars, extVars>>

ResolverNext ==
    \/ GetCurrentTaskId
    \/ IsValidTaskId
    \/ PromptForTaskId
    \/ SetTaskIdCommand
    \/ SwitchBranch
    \/ UpdateCurrentBranch
    \/ UserTypes

ResolverSpec == ResolverInit /\ [][ResolverNext]_vars

\* the resolver's operations on a fixed branch and text
TaskIdNext ==
    \/ GetCurrentTaskId
    \/ IsValidTaskId
    \/ PromptForTaskId
    \/ SetTaskIdCommand

TaskIdSpec == TaskIdInit /\ [][TaskIdNext]_vars

(***************************************************************************)
(* Vocabulary of the task-ID properties, stated on the text itself.        *)
(***************************************************************************)
\* one or more uppercase letters, a hyphen, one or more digits
HasTaskIdFormat(s) ==
    \E k \in 2..(Len(s) - 1) :
        /\ s[k] = "-"
        /\ \A i \in 1..(k - 1) : IsUpper(s[i])
        /\ \A i \in (k + 1)..Len(s) : IsDigit(s[i])

\* the substrings of b that have the task-ID format, as <<first, last>>
TaskIdSubstrings(b) ==
    {p \in (1..Len(b)) \X (1..Len(b)) :
        p[1] <= p[2] /\ HasTaskIdFormat(SubSeq(b, p[1], p[2]))}

ContainsTaskId(b) == TaskIdSubstrings(b) # {}

\* the one that starts first and, from there, runs through all the digits
LeftmostTaskId(b) ==
    LET p == CHOOSE p \in TaskIdSubstrings(b) :
                 \A q \in TaskIdSubstrings(b) :
                     p[1] < q[1] \/ (p[1] = q[1] /\ p[2] >= q[2])
    IN SubSeq(b, p[1], p[2])

\* the branch name that git printed, without the line end
BranchName(g) == SubSeq(g.stdout, 1, Len(g.stdout) - 1)

\* what the documentation says the branch yields
ExpectedBranchTaskId(g) ==
    IF ~g.ok THEN null
    ELSE LET b == BranchName(g)
         IN IF b = <<>> \/ b = <<"H", "E", "A", "D">> \/ ~ContainsTaskId(b)
            THEN null
            ELSE Str(LeftmostTaskId(b))

\* C18: the ID that getCurrentTaskId extracts from the branch name is the
\* leftmost substring made of uppercase letters, a hyphen and digits; it is
\* null when the name has no such substring, is empty or is HEAD, and when
\* the git command fails.
C18_BranchExtraction ==
    rop = "getCurrentTaskId" =>
        rret.branchTaskId = ExpectedBranchTaskId(rret.git)

C18_Witness ==
    /\ rop = "getCurrentTaskId"
    \* 'bugfix/TRIP-142-query'
    /\ rret.git = Git(<<"b", "u", "g", "f", "i", "x", "/", "T", "R", "I",
                        "P", "-", "1", "4", "2", "-", "q", "u", "e", "r",
                        "y">>)
    \* 'TRIP-142'
    /\ rret.branchTaskId = Str(<<"T", "R", "I", "P", "-", "1", "4", "2">>)

\* C19: isValidTaskId(s) is true exactly when s has the task-ID format
\* (uppercase letters, hyphen, digits) and false for every other string;
\* promptForTaskId and setTaskIdCommand accept the same inputs.
C19_ValidTaskId ==
    rop = "isValidTaskId" =>
        /\ rret.value = Bool(HasTaskIdFormat(rret.arg.chars))
        /\ (promptValidateInput(rret.arg.chars) = null)
               <=> (setTaskIdValidateInput(rret.arg.chars) = null)

\* the stored ID that a resolver with this context can read, else null
StoredId(ctx, stored) == IF ctx /\ Truthy(stored) THEN stored ELSE null

StatusBarShows(id) ==
    /\ statusBar.visible
    /\ Includes(statusBar.text, id.chars)

\* C17: once the user has set task ID Y with setTaskIdCommand, and until
\* another ID is set or the branch is switched, getCurrentTaskId returns Y
\* and the status bar shows Y.
C17_ManualOverride ==
    manual # null =>
        /\ rop = "getCurrentTaskId" => rret.value = manual
        /\ StatusBarShows(manual)

(***************************************************************************)
(* The auth manager (SecretStorageAuthManager).  secret is the value kept  *)
(* under API_TOKEN_KEY in the host's secret storage, undefined when there  *)
(* is none; secretFails says that the storage rejects the next access.     *)
(***************************************************************************)
\* longest enumerated token text
MaxTokenLen == 2

getApiToken_Rethrows(sec, fails) ==
    IF fails
    THEN [outcome |-> "rejected", value |-> undefined]
    ELSE [outcome |-> "resolved", value |-> IF Truthy(sec) THEN sec ELSE null]

getApiToken(sec, fails) ==
    IF fails
    THEN [outcome |-> "resolved", value |-> null]
    ELSE [outcome |-> "resolved", value |-> IF Truthy(sec) THEN sec ELSE null]

setApiToken_Untrimmed(sec, fails, token) ==
    IF ~Truthy(token) \/ trim(token.chars) = <<>> \/ fails
    THEN [outcome |-> "rejected",
          \* 'Failed to store API token'
          error |-> <<"F", "a", "i", "l", "e", "d", " ", "t", "o", " ", "s",
                      "t", "o", "r", "e", " ", "A", "P", "I", " ", "t", "o",
                      "k", "e", "n">>,
          secret |-> sec]
    ELSE [outcome |-> "resolved", error |-> <<>>, secret |-> token]

\* the outcome of setApiToken(token) and the secret it leaves
setApiToken(sec, fails, token) ==
    IF ~Truthy(token) \/ trim(token.chars) = <<>> \/ fails
    THEN [outcome |-> "rejected",
          \* 'Failed to store API token'
          error |-> <<"F", "a", "i", "l", "e", "d", " ", "t", "o", " ", "s",
                      "t", "o", "r", "e", " ", "A", "P", "I", " ", "t", "o",
                      "k", "e", "n">>,
          secret |-> sec]
    ELSE [outcome |-> "resolved", error |-> <<>>,
          secret |-> Str(trim(token.chars))]

clearApiToken(sec, fails) ==
    IF fails
    THEN [outcome |-> "rejected",
          \* 'Failed to clear API token'
          error |-> <<"F", "a", "i", "l", "e", "d", " ", "t", "o", " ", "c",
                      "l", "e", "a", "r", " ", "A", "P", "I", " ", "t", "o",
                      "k", "e", "n">>,
          secret |-> sec]
    ELSE [outcome |-> "resolved", error |-> <<>>, secret |-> undefined]

TokenAlphabet == {"x", "y", " "}

TokenTexts == UNION {[1..n -> TokenAlphabet] : n \in 0..MaxTokenLen}

\* what the secret storage may hold
SecretValues == {Str(t) : t \in TokenTexts} \cup {undefined}

\* the arguments of setApiToken
TokenArgs == {Str(t) : t \in TokenTexts} \cup {null, undefined}

AuthInit ==
    /\ secret \in SecretValues
    /\ secretFails \in BOOLEAN
    /\ aop = "none"
    /\ aret = NoReturn
    /\ hadFailedRead = FALSE
    /\ entry = "none" /\ calls = <<>> /\ input = null /\ minutes = 0
    /\ parsed = null /\ rounded = 0 /\ validation = NoValidation
    /\ formatted = <<>> /\ confirmation = FALSE
    /\ ResolverIdle /\ CmdIdle /\ ApiIdle /\ ExtIdle

\* a call of getApiToken, recorded with whether its read failed and with
\* the call it follows
GetApiToken ==
    LET r == getApiToken(secret, secretFails)
    IN /\ aop' = "getApiToken"
       /\ aret' = [outcome |-> r.outcome, value |-> r.value,
                   readFailed |-> secretFails,
                   after |-> [op |-> aop, outcome |-> aret.outcome,
                              arg |-> IF aop = "setApiToken"
                                      THEN aret.arg ELSE null]]
       /\ hadFailedRead' = (hadFailedRead \/ secretFails)
       /\ UNCHANGED <<secret, secretFails>>
       /\ UNCHANGED <<timeVars, resolverVars, cmdVars, apiVars, extVars>>

SetApiToken ==
    \E token \in TokenArgs :
        LET r == setApiToken(secret, secretFails, token)
        IN /\ aop' = "setApiToken"
           /\ aret' = [outcome |-> r.outcome, error |-> r.error,
                       arg |-> token, before |-> secret,
                       writeFailed |-> secretFails]
           /\ secret' = r.secret
           /\ UNCHANGED <<secretFails, hadFailedRead>>
           /\ UNCHANGED <<timeVars, resolverVars, cmdVars, apiVars, extVars>>

ClearApiToken ==
    LET r == clearApiToken(secret, secretFails)
    IN /\ aop' = "clearApiToken"
       /\ aret' = [outcome |-> r.outcome, error |-> r.error,
                   before |-> secret, deleteFailed |-> secretFails]
       /\ secret' = r.secret
       /\ UNCHANGED <<secretFails, hadFailedRead>>
       /\ UNCHANGED <<timeVars, resolverVars, cmdVars, apiVars, extVars>>

\* the secret storage starts or stops failing
SecretStorageChanges ==
    /\ secretFails' = ~secretFails
    /\ UNCHANGED <<secret, aop, aret, hadFailedRead>>
    /\ UNCHANGED <<timeVars, resolverVars, cmdVars, apiVars, extVars>>

AuthNext ==
    \/ GetApiToken
    \/ SetApiToken
    \/ ClearApiToken
    \/ SecretStorageChanges

AuthSpec == AuthInit /\ [][AuthNext]_vars

\* C20: getApiToken never rejects; it returns the stored token when one is
\* stored and non-empty, and null when nothing is stored, the stored value
\* is the empty string or the read fails; this holds as well after earlier
\* reads have failed.
C20_GetApiToken ==
    aop = "getApiToken" =>
        /\ aret.outcome = "resolved"
        /\ aret.value =
              (IF aret.readFailed \/ secret = undefined \/ secret = Str(<<>>)
               THEN null
               ELSE secret)

C20_Witness ==
    /\ aop = "getApiToken"
    /\ hadFailedRead
    /\ ~aret.readFailed
    /\ secret = Str(<<"x", "y">>)
    /\ aret.value = secret

\* the token is the empty string or white space only
IsBlank(token) ==
    token.type = "string" /\ \A i \in DOMAIN token.chars : IsSpace(token.chars[i])

\* the token without its leading and trailing white space
Trimmed(token) ==
    LET cs == token.chars
        keep == {i \in DOMAIN cs : ~IsSpace(cs[i])}
        lo == CHOOSE i \in keep : \A j \in keep : i <= j
        hi == CHOOSE i \in keep : \A j \in keep : j <= i
    IN Str(SubSeq(cs, lo, hi))

\* C21: setApiToken rejects with 'Failed to store API token' and leaves the
\* stored token unchanged when the token is empty, white space only, null
\* or undefined, and when the storage write fails; otherwise it resolves
\* and the storage holds the trimmed token, which a following getApiToken
\* whose read succeeds returns.  clearApiToken rejects with 'Failed to
\* clear API token' when the delete fails and otherwise removes the token;
\* a following getApiToken returns null.
C21_SetAndClearApiToken ==
    /\ aop = "setApiToken" =>
          IF aret.arg \in {null, undefined} \/ IsBlank(aret.arg)
             \/ aret.writeFailed
          THEN /\ aret.outcome = "rejected"
               /\ aret.error = <<"F", "a", "i", "l", "e", "d", " ", "t", "o",
                                 " ", "s", "t", "o", "r", "e", " ", "A", "P",
                                 "I", " ", "t", "o", "k", "e", "n">>
               /\ secret = aret.before
          ELSE /\ aret.outcome = "resolved"
               /\ secret = Trimmed(aret.arg)
    /\ aop = "clearApiToken" =>
          IF aret.deleteFailed
          THEN /\ aret.outcome = "rejected"
               /\ aret.error = <<"F", "a", "i", "l", "e", "d", " ", "t", "o",
                                 " ", "c", "l", "e", "a", "r", " ", "A", "P",
                                 "I", " ", "t", "o", "k", "e", "n">>
               /\ secret = aret.before
          ELSE /\ aret.outcome = "resolved"
               /\ secret = undefined
    /\ (aop = "getApiToken" /\ aret.after.outcome = "resolved") =>
          /\ aret.after.op = "setApiToken" =>
                aret.value = (IF aret.readFailed
                              THEN null ELSE Trimmed(aret.after.arg))
          /\ aret.after.op = "clearApiToken" => aret.value = null

\* a token with white space around it was stored, and the read that
\* follows returns it trimmed
C21_Witness ==
    /\ aop = "getApiToken"
    /\ aret.after.op = "setApiToken"
    /\ aret.after.outcome = "resolved"
    /\ aret.after.arg = Str(<<" ", "x">>)
    /\ secret = Str(<<"x">>)
    /\ aret.value = Str(<<"x">>)

(***************************************************************************)
(* The error handler (ErrorHandler) and the messages of the time-log       *)
(* commands.  What the user is shown is an event of the sequence ui: an    *)
(* input box, a message with its items, a progress notification; the call  *)
(* of apiClient.addTimeLog and the commands executed are events of the     *)
(* same sequence, so that their order can be stated.                       *)
(***************************************************************************)
Error(message) == [type |-> "Error", message |-> message]

UIEvent(kind, text, items) == [kind |-> kind, text |-> text, items |-> items]

\* what the user answered to the prompt before it in ui (undefined: dismissed)
Answer(value) == [kind |-> "answer", value |-> value]

\* ErrorHandler.formatUserMessage: the first rule that matches
formatUserMessage_TimeFirst(errorMessage, context) ==
    \* 'API token'
    IF Includes(errorMessage, <<"A", "P", "I", " ", "t", "o", "k", "e", "n">>)
    \* 'Authentication failed. Please check your API token in settings.'
    THEN <<"A", "u", "t", "h", "e", "n", "t", "i", "c", "a", "t", "i", "o",
           "n", " ", "f", "a", "i", "l", "e", "d", ".", " ", "P", "l", "e",
           "a", "s", "e", " ", "c", "h", "e", "c", "k", " ", "y", "o", "u",
           "r", " ", "A", "P", "I", " ", "t", "o", "k", "e", "n", " ", "i",
           "n", " ", "s", "e", "t", "t", "i", "n", "g", "s", ".">>
    \* 'not found'
    ELSE IF Includes(errorMessage, <<"n", "o", "t", " ", "f", "o", "u", "n",
                                     "d">>)
    \* 'Task not found. Please check your task ID.'
    THEN <<"T", "a", "s", "k", " ", "n", "o", "t", " ", "f", "o", "u", "n",
           "d", ".", " ", "P", "l", "e", "a", "s", "e", " ", "c", "h", "e",
           "c", "k", " ", "y", "o", "u", "r", " ", "t", "a", "s", "k", " ",
           "I", "D", ".">>
    \* 'Invalid time'
    ELSE IF Includes(errorMessage, <<"I", "n", "v", "a", "l", "i", "d", " ",
                                     "t", "i", "m", "e">>)
    \* 'Invalid time format. Please use formats like: 90, 1h, 1h 30m, 01:30'
    THEN <<"I", "n", "v", "a", "l", "i", "d", " ", "t", "i", "m", "e", " ",
           "f", "o", "r", "m", "a", "t", ".", " ", "P", "l", "e", "a", "s",
           "e", " ", "u", "s", "e", " ", "f", "o", "r", "m", "a", "t", "s",
           " ", "l", "i", "k", "e", ":", " ", "9", "0", ",", " ", "1", "h",
           ",", " ", "1", "h", " ", "3", "0", "m", ",", " ", "0", "1", ":",
           "3", "0">>
    ELSE IF \/ Includes(errorMessage, <<"n", "e", "t", "w", "o", "r", "k">>)
            \/ Includes(errorMessage, <<"f", "e", "t", "c", "h">>)
    \* 'Network error. Please check your internet connection and try again.'
    THEN <<"N", "e", "t", "w", "o", "r", "k", " ", "e", "r", "r", "o", "r",
           ".", " ", "P", "l", "e", "a", "s", "e", " ", "c", "h", "e", "c",
           "k", " ", "y", "o", "u", "r", " ", "i", "n", "t", "e", "r", "n",
           "e", "t", " ", "c", "o", "n", "n", "e", "c", "t", "i", "o", "n",
           " ", "a", "n", "d", " ", "t", "r", "y", " ", "a", "g", "a", "i",
           "n", ".">>
    \* 'Failed to '
    ELSE <<"F", "a", "i", "l", "e", "d", " ", "t", "o",
           " ">> \o context \o <<".", " ">> \o errorMessage

formatUserMessage(errorMessage, context) ==
    \* 'API token'
    IF Includes(errorMessage, <<"A", "P", "I", " ", "t", "o", "k", "e", "n">>)
    \* 'Authentication failed. Please check your API token in settings.'
    THEN <<"A", "u", "t", "h", "e", "n", "t", "i", "c", "a", "t", "i", "o",
           "n", " ", "f", "a", "i", "l", "e", "d", ".", " ", "P", "l", "e",
           "a", "s", "e", " ", "c", "h", "e", "c", "k", " ", "y", "o", "u",
           "r", " ", "A", "P", "I", " ", "t", "o", "k", "e", "n", " ", "i",
           "n", " ", "s", "e", "t", "t", "i", "n", "g", "s", ".">>
    \* 'not found'
    ELSE IF Includes(errorMessage, <<"n", "o", "t", " ", "f", "o", "u", "n",
                                     "d">>)
    \* 'Task not found. Please check your task ID.'
    THEN <<"T", "a", "s", "k", " ", "n", "o", "t", " ", "f", "o", "u", "n",
           "d", ".", " ", "P", "l", "e", "a", "s", "e", " ", "c", "h", "e",
           "c", "k", " ", "y", "o", "u", "r", " ", "t", "a", "s", "k", " ",
           "I", "D", ".">>
    ELSE IF \/ Includes(errorMessage, <<"n", "e", "t", "w", "o", "r", "k">>)
            \/ Includes(errorMessage, <<"f", "e", "t", "c", "h">>)
    \* 'Network error. Please check your internet connection and try again.'
    THEN <<"N", "e", "t", "w", "o", "r", "k", " ", "e", "r", "r", "o", "r",
           ".", " ", "P", "l", "e", "a", "s", "e", " ", "c", "h", "e", "c",
           "k", " ", "y", "o", "u", "r", " ", "i", "n", "t", "e", "r", "n",
           "e", "t", " ", "c", "o", "n", "n", "e", "c", "t", "i", "o", "n",
           " ", "a", "n", "d", " ", "t", "r", "y", " ", "a", "g", "a", "i",
           "n", ".">>
    \* 'Invalid time'
    ELSE IF Includes(errorMessage, <<"I", "n", "v", "a", "l", "i", "d", " ",
                                     "t", "i", "m", "e">>)
    \* 'Invalid time format. Please use formats like: 90, 1h, 1h 30m, 01:30'
    THEN <<"I", "n", "v", "a", "l", "i", "d", " ", "t", "i", "m", "e", " ",
           "f", "o", "r", "m", "a", "t", ".", " ", "P", "l", "e", "a", "s",
           "e", " ", "u", "s", "e", " ", "f", "o", "r", "m", "a", "t", "s",
           " ", "l", "i", "k", "e", ":", " ", "9", "0", ",", " ", "1", "h",
           ",", " ", "1", "h", " ", "3", "0", "m", ",", " ", "0", "1", ":",
           "3", "0">>
    \* 'Failed to '
    ELSE <<"F", "a", "i", "l", "e", "d", " ", "t", "o",
           " ">> \o context \o <<".", " ">> \o errorMessage

\* ErrorHandler.handleCommandError: the events it adds
handleCommandError(error, context, showToUser) ==
    LET errorMessage == IF error.type = "Error" THEN error.message
                        \* 'Unknown error'
                        ELSE <<"U", "n", "k", "n", "o", "w", "n", " ", "e",
                               "r", "r", "o", "r">>
    IN IF showToUser
       THEN <<UIEvent("showErrorMessage",
                      formatUserMessage(errorMessage, context), <<>>)>>
       ELSE <<>>

\* the template literals of validateTimeEntry's warnings
WarningText(w) ==
    IF "hours" \in DOMAIN w
    \* 'Time entries cannot exceed '
    THEN <<"T", "i", "m", "e", " ", "e", "n", "t", "r", "i", "e", "s", " ",
           "c", "a", "n", "n", "o", "t", " ", "e", "x", "c", "e", "e", "d",
           " ">> \o NumToString(w.minutes)
         \* ' minutes ('
         \o <<" ", "m", "i", "n", "u", "t", "e", "s", " ",
              "(">> \o NumToString(w.hours) \o <<" ", "h", "o", "u", "r",
              "s", ")">>
    \* 'Time rounded to '
    ELSE <<"T", "i", "m", "e", " ", "r", "o", "u", "n", "d", "e", "d", " ",
           "t", "o", " ">> \o NumToString(w.minutes)
         \* ' minutes (nearest '
         \* ' minutes)'
         \o <<" ", "m", "i", "n", "u", "t", "e", "s", " ", "(", "n", "e",
              "a", "r", "e", "s", "t",
              " ">> \o NumToString(w.nearest) \o <<" ", "m", "i", "n", "u",
              "t", "e", "s", ")">>

\* the text of new Error(validation.warning || 'Invalid time entry')
ValidationMessage(v) ==
    IF HasWarning(v) THEN WarningText(v.warning)
    \* 'Invalid time entry'
    ELSE <<"I", "n", "v", "a", "l", "i", "d", " ", "t", "i", "m", "e", " ",
           "e", "n", "t", "r", "y">>

\* note && note.trim() ? ` for "${note.trim()}"` : ''
noteText(note) ==
    IF Truthy(note) /\ trim(note.chars) # <<>>
    THEN <<" ", "f", "o", "r", " ", "\"">> \o trim(note.chars) \o <<"\"">>
    ELSE <<>>

\* note && note.trim() ? note.trim() : undefined
payloadNote(note) ==
    IF Truthy(note) /\ trim(note.chars) # <<>>
    THEN Str(trim(note.chars))
    ELSE undefined

(***************************************************************************)
(* addTimeLogCommand and commitTimeLogCommand.  A command runs from one    *)
(* await to the next: cmd.pc names the prompt or the call it is waiting    *)
(* for, the other fields are its local variables.  Each operator below is  *)
(* the code between two awaits; it gives the command's next state and the  *)
(* events it adds to ui.  The input boxes hand back what the user entered  *)
(* whether or not validateInput accepts it, as the test doubles do.        *)
(***************************************************************************)
Commands == {"addTimeLogCommand", "commitTimeLogCommand"}

NewCommand(name) ==
    [name |-> name, pc |-> "start", taskId |-> null, note |-> undefined,
     minutes |-> 0, validation |-> NoValidation, outcome |-> "pending"]

\* a return, or the end of the function: the promise resolves
Return(c) == [c EXCEPT !.pc = "done", !.outcome = "resolved"]

\* the context string given to handleCommandError
ErrorContext(name) ==
    IF name = "addTimeLogCommand"
    \* 'add time log'
    THEN <<"a", "d", "d", " ", "t", "i", "m", "e", " ", "l", "o", "g">>
    \* 'log commit time'
    ELSE <<"l", "o", "g", " ", "c", "o", "m", "m", "i", "t", " ", "t", "i",
           "m", "e">>

ContinueAnyway == <<"C", "o", "n", "t", "i", "n", "u", "e", " ", "A", "n",
                    "y", "w", "a", "y">>

\* the item of the final prompt that submits the entry
ConfirmItem(c) ==
    IF c.name = "addTimeLogCommand"
    THEN IF requiresConfirmation(c.validation.roundedMinutes)
         \* 'Yes, Add Time'
         THEN <<"Y", "e", "s", ",", " ", "A", "d", "d", " ", "T", "i", "m",
                "e">>
         \* 'Add Time'
         ELSE <<"A", "d", "d", " ", "T", "i", "m", "e">>
    \* 'Log Time'
    ELSE <<"L", "o", "g", " ", "T", "i", "m", "e">>

\* the final prompt: showWarning for a large entry of addTimeLogCommand,
\* showInfo otherwise
confirmPrompt(c) ==
    LET time == formatMinutes(c.validation.roundedMinutes)
    IN IF c.name = "addTimeLogCommand"
       THEN IF requiresConfirmation(c.validation.roundedMinutes)
            THEN UIEvent("showWarningMessage",
                         \* ' to task '
                         <<"A", "d", "d", " ">> \o time \o <<" ", "t", "o",
                           " ", "t", "a", "s", "k", " ">>
                             \o c.taskId.chars \o noteText(c.note)
                             \* '? This is a large time entry.'
                             \o <<"?", " ", "T", "h", "i", "s", " ", "i",
                                  "s", " ", "a", " ", "l", "a", "r", "g",
                                  "e", " ", "t", "i", "m", "e", " ", "e",
                                  "n", "t", "r", "y", ".">>,
                         \* 'Yes, Add Time'
                         <<<<"Y", "e", "s", ",", " ", "A", "d", "d", " ",
                             "T", "i", "m", "e">>,
                           <<"C", "a", "n", "c", "e", "l">>>>)
            ELSE UIEvent("showInformationMessage",
                         \* ' to task '
                         <<"A", "d", "d", " ">> \o time \o <<" ", "t", "o",
                           " ", "t", "a", "s", "k", " ">>
                             \o c.taskId.chars \o noteText(c.note) \o <<"?">>,
                         \* 'Add Time'
                         <<<<"A", "d", "d", " ", "T", "i", "m", "e">>, <<"C",
                             "a", "n", "c", "e", "l">>>>)
       ELSE UIEvent("showInformationMessage",
                    <<"L", "o", "g", " ">> \o time \o noteText(c.note)
                        \o <<"?">>,
                    \* 'Log Time'
                    <<<<"L", "o", "g", " ", "T", "i", "m", "e">>, <<"S", "k",
                        "i", "p">>>>)

beginCommand_NoTokenCheck(c, taskId, token) ==
    IF ~Truthy(taskId)
    THEN [cmd |-> Return(c),
          ui |-> IF c.name = "addTimeLogCommand"
                 THEN handleCommandError(
                          \* 'No active task found'
                          Error(<<"N", "o", " ", "a", "c", "t", "i", "v",
                                  "e", " ", "t", "a", "s", "k", " ", "f",
                                  "o", "u", "n", "d">>),
                          <<"a", "d", "d", " ", "t", "i", "m", "e", " ", "l",
                            "o", "g", " ", "-", " ", "p", "l", "e", "a", "s",
                            "e", " ", "s", "w", "i", "t", "c", "h", " ", "t",
                            "o", " ", "a", " ", "t", "a", "s", "k", " ", "b",
                            "r", "a", "n", "c", "h", " ", "o", "r", " ", "s",
                            "e", "t", " ", "a", " ", "t", "a", "s", "k", " ",
                            "I", "D", " ", "m", "a", "n", "u", "a", "l", "l",
                            "y">>,
                          TRUE)
                 ELSE <<>>]
    ELSE [cmd |-> [c EXCEPT !.pc = "note", !.taskId = taskId],
          ui |-> <<UIEvent("showInputBox",
                           IF c.name = "addTimeLogCommand"
                           \* 'What did you work on?'
                           THEN <<"W", "h", "a", "t", " ", "d", "i", "d",
                                  " ", "y", "o", "u", " ", "w", "o", "r",
                                  "k", " ", "o", "n", "?">>
                           \* 'What did you work on for this commit?'
                           ELSE <<"W", "h", "a", "t", " ", "d", "i", "d",
                                  " ", "y", "o", "u", " ", "w", "o", "r",
                                  "k", " ", "o", "n", " ", "f", "o", "r",
                                  " ", "t", "h", "i", "s", " ", "c", "o",
                                  "m", "m", "i", "t", "?">>,
                           <<>>)>>]

\* from the start to the note prompt: the task ID and the token are checked
beginCommand(c, taskId, token) ==
    IF ~Truthy(taskId)
    THEN [cmd |-> Return(c),
          ui |-> IF c.name = "addTimeLogCommand"
                 THEN handleCommandError(
                          \* 'No active task found'
                          Error(<<"N", "o", " ", "a", "c", "t", "i", "v",
                                  "e", " ", "t", "a", "s", "k", " ", "f",
                                  "o", "u", "n", "d">>),
                          <<"a", "d", "d", " ", "t", "i", "m", "e", " ", "l",
                            "o", "g", " ", "-", " ", "p", "l", "e", "a", "s",
                            "e", " ", "s", "w", "i", "t", "c", "h", " ", "t",
                            "o", " ", "a", " ", "t", "a", "s", "k", " ", "b",
                            "r", "a", "n", "c", "h", " ", "o", "r", " ", "s",
                            "e", "t", " ", "a", " ", "t", "a", "s", "k", " ",
                            "I", "D", " ", "m", "a", "n", "u", "a", "l", "l",
                            "y">>,
                          TRUE)
                 ELSE <<>>]
    ELSE IF ~Truthy(token)
    THEN [cmd |-> Return([c EXCEPT !.taskId = taskId]),
          ui |-> IF c.name = "addTimeLogCommand"
                 THEN handleCommandError(
                          \* 'API token not configured'
                          Error(<<"A", "P", "I", " ", "t", "o", "k", "e",
                                  "n", " ", "n", "o", "t", " ", "c", "o",
                                  "n", "f", "i", "g", "u", "r", "e", "d">>),
                          \* 'add time log - please set your API token first'
                          <<"a", "d", "d", " ", "t", "i", "m", "e", " ", "l",
                            "o", "g", " ", "-", " ", "p", "l", "e", "a", "s",
                            "e", " ", "s", "e", "t", " ", "y", "o", "u", "r",
                            " ", "A", "P", "I", " ", "t", "o", "k", "e", "n",
                            " ", "f", "i", "r", "s", "t">>,
                          TRUE)
                 ELSE <<>>]
    ELSE [cmd |-> [c EXCEPT !.pc = "note", !.taskId = taskId],
          ui |-> <<UIEvent("showInputBox",
                           IF c.name = "addTimeLogCommand"
                           \* 'What did you work on?'
                           THEN <<"W", "h", "a", "t", " ", "d", "i", "d",
                                  " ", "y", "o", "u", " ", "w", "o", "r",
                                  "k", " ", "o", "n", "?">>
                           \* 'What did you work on for this commit?'
                           ELSE <<"W", "h", "a", "t", " ", "d", "i", "d",
                                  " ", "y", "o", "u", " ", "w", "o", "r",
                                  "k", " ", "o", "n", " ", "f", "o", "r",
                                  " ", "t", "h", "i", "s", " ", "c", "o",
                                  "m", "m", "i", "t", "?">>,
                           <<>>)>>]

\* from the note to the time prompt
noteEntered(c, note) ==
    IF c.name = "commitTimeLogCommand" /\ note = undefined
    THEN [cmd |-> Return(c), ui |-> <<>>]
    ELSE [cmd |-> [c EXCEPT !.pc = "time", !.note = note],
          ui |-> <<UIEvent("showInputBox",
                           IF c.name = "addTimeLogCommand"
                           \* 'Enter time (e.g., 90, 1h, 1h 30m, 01:30)'
                           THEN <<"E", "n", "t", "e", "r", " ", "t", "i",
                                  "m", "e", " ", "(", "e", ".", "g", ".",
                                  ",", " ", "9", "0", ",", " ", "1", "h",
                                  ",", " ", "1", "h", " ", "3", "0", "m",
                                  ",", " ", "0", "1", ":", "3", "0", ")">>
                           \* 'Enter time spent on this commit (e.g., 90, 1h, 1h 30m, 01:30)'
                           ELSE <<"E", "n", "t", "e", "r", " ", "t", "i",
                                  "m", "e", " ", "s", "p", "e", "n", "t",
                                  " ", "o", "n", " ", "t", "h", "i", "s",
                                  " ", "c", "o", "m", "m", "i", "t", " ",
                                  "(", "e", ".", "g", ".", ",", " ", "9",
                                  "0", ",", " ", "1", "h", ",", " ", "1",
                                  "h", " ", "3", "0", "m", ",", " ", "0",
                                  "1", ":", "3", "0", ")">>,
                           <<>>)>>]

\* from the time entered to the rounding warning or the final prompt;
\* p is what parseTimeInput(timeInput) returned and v what
\* validateTimeEntry(p.minutes) returned (not called when p is null)
timeEntered(c, timeInput, p, v) ==
    IF ~Truthy(timeInput) THEN [cmd |-> Return(c), ui |-> <<>>]
    ELSE IF p = null
    THEN [cmd |-> Return(c),
          ui |-> handleCommandError(
                     \* 'Invalid time format'
                     Error(<<"I", "n", "v", "a", "l", "i", "d", " ", "t",
                             "i", "m", "e", " ", "f", "o", "r", "m", "a",
                             "t">>),
                     ErrorContext(c.name), TRUE)]
    ELSE LET d == [c EXCEPT !.minutes = p.minutes, !.validation = v]
         IN IF ~v.isValid
            THEN [cmd |-> Return(d),
                  ui |-> handleCommandError(Error(ValidationMessage(v)),
                                            ErrorContext(c.name), TRUE)]
            ELSE IF HasWarning(v)
            THEN [cmd |-> [d EXCEPT !.pc = "rounding"],
                  ui |-> <<UIEvent("showWarningMessage",
                                   WarningText(v.warning),
                                   <<ContinueAnyway,
                                     <<"C", "a", "n", "c", "e", "l">>>>)>>]
            ELSE [cmd |-> [d EXCEPT !.pc = "confirmation"],
                  ui |-> <<confirmPrompt(d)>>]

\* from the answer to the rounding warning to the final prompt
roundingAnswered_UnlessCancelled(c, answer) ==
    IF answer = Str(<<"C", "a", "n", "c", "e", "l">>)
    THEN [cmd |-> Return(c), ui |-> <<>>]
    ELSE [cmd |-> [c EXCEPT !.pc = "confirmation"],
          ui |-> <<confirmPrompt(c)>>]

roundingAnswered(c, answer) ==
    IF answer # Str(ContinueAnyway)
    THEN [cmd |-> Return(c), ui |-> <<>>]
    ELSE [cmd |-> [c EXCEPT !.pc = "confirmation"],
          ui |-> <<confirmPrompt(c)>>]

\* timeLogPayload and the call of apiClient.addTimeLog
AddTimeLogCall(c) ==
    [kind |-> "addTimeLog", taskId |-> c.taskId,
     minutes |-> c.validation.roundedMinutes, note |-> payloadNote(c.note)]

confirmationAnswered_UnlessDeclined(c, answer) ==
    IF answer \in {Str(<<"C", "a", "n", "c", "e", "l">>), Str(<<"S", "k",
                         "i", "p">>)}
    THEN [cmd |-> Return(c), ui |-> <<>>]
    ELSE [cmd |-> [c EXCEPT !.pc = "addTimeLog"],
          ui |-> <<UIEvent("withProgress",
                           IF c.name = "addTimeLogCommand"
                           \* 'Adding time log...'
                           THEN <<"A", "d", "d", "i", "n", "g", " ", "t",
                                  "i", "m", "e", " ", "l", "o", "g", ".",
                                  ".", ".">>
                           \* 'Logging commit time...'
                           ELSE <<"L", "o", "g", "g", "i", "n", "g", " ",
                                  "c", "o", "m", "m", "i", "t", " ", "t",
                                  "i", "m", "e", ".", ".", ".">>,
                           <<>>),
                   AddTimeLogCall(c)>>]

\* from the answer to the final prompt to the call of apiClient.addTimeLog
confirmationAnswered(c, answer) ==
    IF answer # Str(ConfirmItem(c))
    THEN [cmd |-> Return(c), ui |-> <<>>]
    ELSE [cmd |-> [c EXCEPT !.pc = "addTimeLog"],
          ui |-> <<UIEvent("withProgress",
                           IF c.name = "addTimeLogCommand"
                           \* 'Adding time log...'
                           THEN <<"A", "d", "d", "i", "n", "g", " ", "t",
                                  "i", "m", "e", " ", "l", "o", "g", ".",
                                  ".", ".">>
                           \* 'Logging commit time...'
                           ELSE <<"L", "o", "g", "g", "i", "n", "g", " ",
                                  "c", "o", "m", "m", "i", "t", " ", "t",
                                  "i", "m", "e", ".", ".", ".">>,
                           <<>>),
                   AddTimeLogCall(c)>>]

\* after apiClient.addTimeLog has resolved, or rejected with error
addTimeLogSettled_RefreshAlways(c, ok, error) ==
    IF ok
    THEN [cmd |-> Return(c),
          ui |-> <<UIEvent("showInformationMessage",
                           IF c.name = "addTimeLogCommand"
                           THEN <<CheckMark>> \o <<" ", "A", "d", "d", "e",
                               "d", " ">>
                                \o formatMinutes(c.validation.roundedMinutes)
                                \* ' to task '
                                \o <<" ", "t", "o", " ", "t", "a", "s", "k",
                                     " ">> \o c.taskId.chars
                                \o noteText(c.note)
                           \* ' Logged '
                           ELSE <<CheckMark>> \o <<" ", "L", "o", "g", "g",
                               "e", "d", " ">>
                                \o formatMinutes(c.validation.roundedMinutes)
                                \* ' for task '
                                \o <<" ", "f", "o", "r", " ", "t", "a", "s",
                                     "k", " ">> \o c.taskId.chars,
                           <<>>),
                   UIEvent("executeCommand",
                           \* 'commutatus-tracker.showTask'
                           <<"c", "o", "m", "m", "u", "t", "a", "t", "u",
                             "s", "-", "t", "r", "a", "c", "k", "e", "r",
                             ".", "s", "h", "o", "w", "T", "a", "s", "k">>,
                           <<>>)>>]
    ELSE [cmd |-> Return(c),
          ui |-> handleCommandError(error, ErrorContext(c.name), TRUE)
                 \o <<UIEvent("executeCommand",
                              \* 'commutatus-tracker.showTask'
                              <<"c", "o", "m", "m", "u", "t", "a", "t", "u",
                                "s", "-", "t", "r", "a", "c", "k", "e", "r",
                                ".", "s", "h", "o", "w", "T", "a", "s", "k">>,
                              <<>>)>>]

addTimeLogSettled(c, ok, error) ==
    IF ok
    THEN [cmd |-> Return(c),
          ui |-> <<UIEvent("showInformationMessage",
                           IF c.name = "addTimeLogCommand"
                           THEN <<CheckMark>> \o <<" ", "A", "d", "d", "e",
                               "d", " ">>
                                \o formatMinutes(c.validation.roundedMinutes)
                                \* ' to task '
                                \o <<" ", "t", "o", " ", "t", "a", "s", "k",
                                     " ">> \o c.taskId.chars
                                \o noteText(c.note)
                           \* ' Logged '
                           ELSE <<CheckMark>> \o <<" ", "L", "o", "g", "g",
                               "e", "d", " ">>
                                \o formatMinutes(c.validation.roundedMinutes)
                                \* ' for task '
                                \o <<" ", "f", "o", "r", " ", "t", "a", "s",
                                     "k", " ">> \o c.taskId.chars,
                           <<>>),
                   UIEvent("executeCommand",
                           \* 'commutatus-tracker.showTask'
                           <<"c", "o", "m", "m", "u", "t", "a", "t", "u",
                             "s", "-", "t", "r", "a", "c", "k", "e", "r",
                             ".", "s", "h", "o", "w", "T", "a", "s", "k">>,
                           <<>>)>>]
    ELSE [cmd |-> Return(c),
          ui |-> handleCommandError(error, ErrorContext(c.name), TRUE)]

\* what the user enters in the note box (undefined: the box is dismissed)
NoteAnswers ==
    {undefined, Str(<<>>), Str(<<"f", "i", "x">>), Str(<<" ", "f", "i", "x",
                                 " ">>)}

\* what the user enters in the time box
TimeAnswers ==
    {undefined, Str(<<>>), Str(<<"a", "b", "c">>), Str(<<"0">>), Str(<<"5">>),
     Str(<<"2", "3">>), Str(<<"9", "0">>), Str(<<"1", "h", " ", "3", "0",
           "m">>),
     Str(<<"2", "3", "3">>), Str(<<"4", "h">>), Str(<<"4", "8", "0">>),
     Str(<<"9", "h">>), Str(<<"8", "h", " ", "1", "m">>), Str(<<"5", "0",
           "0">>)}

\* the user picks an item of the message shown last, or dismisses it
MessageAnswers ==
    {Str(Last(ui).items[k]) : k \in 1..Len(Last(ui).items)} \cup {undefined}

\* the errors apiClient.addTimeLog rejects with
ApiErrors ==
    \* 'API token not set. Please configure your API token first.'
    {Error(<<"A", "P", "I", " ", "t", "o", "k", "e", "n", " ", "n", "o", "t",
             " ", "s", "e", "t", ".", " ", "P", "l", "e", "a", "s", "e", " ",
             "c", "o", "n", "f", "i", "g", "u", "r", "e", " ", "y", "o", "u",
             "r", " ", "A", "P", "I", " ", "t", "o", "k", "e", "n", " ", "f",
             "i", "r", "s", "t", ".">>),
     \* 'API request failed: 500 Internal Server Error'
     Error(<<"A", "P", "I", " ", "r", "e", "q", "u", "e", "s", "t", " ", "f",
             "a", "i", "l", "e", "d", ":", " ", "5", "0", "0", " ", "I", "n",
             "t", "e", "r", "n", "a", "l", " ", "S", "e", "r", "v", "e", "r",
             " ", "E", "r", "r", "o", "r">>)}

\* a command is invoked: the workspace has a branch, maybe a stored task ID
\* and maybe a stored token
CmdInit ==
    /\ \E name \in Commands : cmd = NewCommand(name)
    /\ ui = <<>>
    \* 'feature/B-1'
    /\ git \in {Git(<<"m", "a", "i", "n">>), Git(<<"f", "e", "a", "t", "u",
                      "r", "e", "/", "B", "-", "1">>), GitFailure}
    /\ hasContext \in BOOLEAN
    /\ workspaceState \in {undefined, Str(<<"A", "-", "1">>)}
    /\ typed = undefined
    /\ rop = "none"
    /\ rret = NoReturn
    /\ manual = null
    /\ statusBar = NewStatusBarItem
    /\ currentBranch = <<>>
    /\ secret \in {undefined, Str(<<>>), Str(<<"x">>)}
    /\ secretFails \in BOOLEAN
    /\ aop = "none"
    /\ aret = NoReturn
    /\ hadFailedRead = FALSE
    /\ entry = "none" /\ calls = <<>> /\ input = null /\ minutes = 0
    /\ parsed = null /\ rounded = 0 /\ validation = NoValidation
    /\ formatted = <<>> /\ confirmation = FALSE
    /\ ApiIdle /\ ExtIdle

\* the command runs up to its first prompt: getCurrentTaskId, then
\* getApiToken when there is a task ID
CommandBegins ==
    /\ cmd.pc = "start"
    /\ \E r \in {getCurrentTaskId(git, hasContext, workspaceState)} :
       \E t \in {getApiToken(secret, secretFails)} :
       \E step \in {beginCommand(cmd, r.value, t.value)} :
          /\ workspaceState' = r.stored
          /\ rop' = "getCurrentTaskId"
          /\ rret' = [outcome |-> r.outcome, value |-> r.value,
                      branchTaskId |-> r.branchTaskId, git |-> git,
                      before |-> workspaceState]
          /\ IF Truthy(r.value)
             THEN /\ aop' = "getApiToken"
                  /\ aret' = [outcome |-> t.outcome, value |-> t.value,
                              readFailed |-> secretFails]
                  /\ hadFailedRead' = (hadFailedRead \/ secretFails)
             ELSE UNCHANGED <<aop, aret, hadFailedRead>>
          /\ cmd' = step.cmd
          /\ ui' = ui \o step.ui
    /\ UNCHANGED <<git, hasContext, typed, manual, statusBar, currentBranch>>
    /\ UNCHANGED <<secret, secretFails>>
    /\ UNCHANGED <<timeVars, apiVars, extVars>>

NoteEntered ==
    /\ cmd.pc = "note"
    /\ \E note \in NoteAnswers :
           \E step \in {noteEntered(cmd, note)} :
               cmd' = step.cmd /\ ui' = ui \o <<Answer(note)>> \o step.ui
    /\ UNCHANGED <<timeVars, resolverVars, authVars, apiVars, extVars>>

\* the time box is answered: parseTimeInput and validateTimeEntry are called
\* once each, then the command goes on to its next prompt or returns
TimeEntered ==
    /\ cmd.pc = "time"
    /\ \E timeInput \in TimeAnswers :
       \E p \in {IF Truthy(timeInput) THEN parseTimeInput(timeInput)
                 ELSE null} :
       \E v \in {IF p = null THEN NoValidation
                 ELSE validateTimeEntry(p.minutes)} :
       \E step \in {timeEntered(cmd, timeInput, p, v)} :
           cmd' = step.cmd /\ ui' = ui \o <<Answer(timeInput)>> \o step.ui
    /\ UNCHANGED <<timeVars, resolverVars, authVars, apiVars, extVars>>

RoundingAnswered ==
    /\ cmd.pc = "rounding"
    /\ \E answer \in MessageAnswers :
           \E step \in {roundingAnswered(cmd, answer)} :
               cmd' = step.cmd /\ ui' = ui \o <<Answer(answer)>> \o step.ui
    /\ UNCHANGED <<timeVars, resolverVars, authVars, apiVars, extVars>>

ConfirmationAnswered ==
    /\ cmd.pc = "confirmation"
    /\ \E answer \in MessageAnswers :
           \E step \in {confirmationAnswered(cmd, answer)} :
               cmd' = step.cmd /\ ui' = ui \o <<Answer(answer)>> \o step.ui
    /\ UNCHANGED <<timeVars, resolverVars, authVars, apiVars, extVars>>

\* the promise of apiClient.addTimeLog settles: resolved, or rejected with
\* the error
Settled(ok, error) == [kind |-> "settled", ok |-> ok, error |-> error]

AddTimeLogResolves ==
    /\ cmd.pc = "addTimeLog"
    /\ \E step \in {addTimeLogSettled(cmd, TRUE, null)} :
           cmd' = step.cmd /\ ui' = ui \o <<Settled(TRUE, null)>> \o step.ui
    /\ UNCHANGED <<timeVars, resolverVars, authVars, apiVars, extVars>>

AddTimeLogRejects ==
    /\ cmd.pc = "addTimeLog"
    /\ \E error \in ApiErrors :
           \E step \in {addTimeLogSettled(cmd, FALSE, error)} :
               /\ cmd' = step.cmd
               /\ ui' = ui \o <<Settled(FALSE, error)>> \o step.ui
    /\ UNCHANGED <<timeVars, resolverVars, authVars, apiVars, extVars>>

CmdNext ==
    \/ CommandBegins
    \/ NoteEntered
    \/ TimeEntered
    \/ RoundingAnswered
    \/ ConfirmationAnswered
    \/ AddTimeLogResolves
    \/ AddTimeLogRejects

CmdSpec == CmdInit /\ [][CmdNext]_vars

(***************************************************************************)
(* Vocabulary of the command properties, stated on the events of ui.       *)
(***************************************************************************)
\* the items that submit the entry
AcceptItems ==
    \* 'Add Time'
    {<<"A", "d", "d", " ", "T", "i", "m", "e">>,
     \* 'Yes, Add Time'
     <<"Y", "e", "s", ",", " ", "A", "d", "d", " ", "T", "i", "m", "e">>,
     \* 'Log Time'
     <<"L", "o", "g", " ", "T", "i", "m", "e">>}

IsMessage(e) == e.kind \in {"showWarningMessage", "showInformationMessage"}

\* the prompt of the time input box
IsTimePrompt(e) ==
    \* 'Enter time'
    e.kind = "showInputBox" /\ Includes(e.text, <<"E", "n", "t", "e", "r",
        " ", "t", "i", "m", "e">>)

\* the warning that the time was rounded
IsRoundingWarning(e) ==
    /\ e.kind = "showWarningMessage"
    \* 'Time rounded to '
    /\ Includes(e.text, <<"T", "i", "m", "e", " ", "r", "o", "u", "n", "d",
                          "e", "d", " ", "t", "o", " ">>)

\* the last prompt before submission, whichever message it is
IsFinalPrompt(e) ==
    IsMessage(e) /\ Len(e.items) > 0 /\ e.items[1] \in AcceptItems

\* the extra warning prompt of a large entry
IsLargeEntryWarning(e) ==
    /\ e.kind = "showWarningMessage"
    \* 'This is a large time entry.'
    /\ Includes(e.text, <<"T", "h", "i", "s", " ", "i", "s", " ", "a", " ",
                          "l", "a", "r", "g", "e", " ", "t", "i", "m", "e",
                          " ", "e", "n", "t", "r", "y", ".">>)

\* a success notification: an information message without items
IsSuccess(e) ==
    e.kind = "showInformationMessage" /\ e.items = <<>>

IsErrorMessage(e) == e.kind = "showErrorMessage"

\* the indices of the calls of apiClient.addTimeLog
ApiCalls == {i \in DOMAIN ui : ui[i].kind = "addTimeLog"}

\* the prompt at index j was answered with a
AnsweredWith(j, a) ==
    j < Len(ui) /\ ui[j + 1].kind = "answer" /\ ui[j + 1].value = a

\* the prompt at index j was answered with its first item
Accepted(j) == AnsweredWith(j, Str(ui[j].items[1]))

\* a time text that is dismissed, does not parse or does not validate
TimeRefused(t) ==
    \/ ~Truthy(t)
    \/ parseTimeInput(t) = null
    \/ ~validateTimeEntry(parseTimeInput(t).minutes).isValid

\* the user cancelled or dismissed the time prompt, the rounding warning or
\* the final prompt, or entered a time that fails to parse or validate
Declined ==
    \E j \in 1..(Len(ui) - 1) :
        /\ ui[j + 1].kind = "answer"
        /\ \/ IsTimePrompt(ui[j]) /\ TimeRefused(ui[j + 1].value)
           \/ IsRoundingWarning(ui[j])
                  /\ ui[j + 1].value # Str(ContinueAnyway)
           \/ IsFinalPrompt(ui[j]) /\ ~Accepted(j)

\* C12: addTimeLog is called at most once in a run, and only after the
\* user accepted the final prompt ('Add Time', 'Yes, Add Time', 'Log
\* Time'); after a cancelled or dismissed time prompt, rounding warning or
\* final prompt, or a time that fails to parse or validate, the command has
\* ended with no API call and no success message.
C12_SubmitOnlyOnConfirmation ==
    /\ Cardinality(ApiCalls) <= 1
    /\ \A i \in ApiCalls :
           \E j \in 1..(i - 1) : IsFinalPrompt(ui[j]) /\ Accepted(j)
    /\ Declined =>
           /\ cmd.pc = "done"
           /\ ApiCalls = {}
           /\ \A i \in DOMAIN ui : ~IsSuccess(ui[i])

C12_Witness ==
    /\ cmd.name = "commitTimeLogCommand"
    /\ cmd.pc = "done"
    /\ Cardinality(ApiCalls) = 1
    /\ \E j \in DOMAIN ui :
           /\ IsFinalPrompt(ui[j])
           \* 'Log Time'
           /\ AnsweredWith(j, Str(<<"L", "o", "g", " ", "T", "i", "m", "e">>))
    /\ IsSuccess(ui[Len(ui) - 1])

\* before index i, the large-entry warning was shown and accepted
LargeEntryAcceptedBefore(i) ==
    \E j \in 1..(i - 1) : IsLargeEntryWarning(ui[j]) /\ Accepted(j)

\* C13 as stated: in both commands, a call of addTimeLog with 240 minutes
\* or more is preceded by the large-entry warning prompt, accepted by the
\* user.
C13_LargeEntryWarned ==
    \A i \in ApiCalls :
        ui[i].minutes >= CONFIRMATION_THRESHOLD_MINUTES =>
            LargeEntryAcceptedBefore(i)

\* C13, amended: addTimeLogCommand submits 240 minutes or more only after
\* the large-entry warning was accepted; commitTimeLogCommand never shows
\* that warning and submits any entry after its one prompt was answered
\* 'Log Time'.
C13_LargeEntryWarnedInAddTime ==
    /\ cmd.name = "addTimeLogCommand" =>
           \A i \in ApiCalls :
               ui[i].minutes >= CONFIRMATION_THRESHOLD_MINUTES =>
                   LargeEntryAcceptedBefore(i)
    /\ cmd.name = "commitTimeLogCommand" =>
           /\ \A j \in DOMAIN ui : ~IsLargeEntryWarning(ui[j])
           /\ \A i \in ApiCalls :
                  \E j \in 1..(i - 1) :
                      /\ IsFinalPrompt(ui[j])
                      \* 'Log Time'
                      /\ AnsweredWith(j, Str(<<"L", "o", "g", " ", "T", "i",
                          "m", "e">>))

C13_Witness ==
    /\ cmd.name = "addTimeLogCommand"
    /\ \E i \in ApiCalls :
           /\ ui[i].minutes = CONFIRMATION_THRESHOLD_MINUTES
           /\ \E j \in 1..(i - 1) :
                  /\ IsLargeEntryWarning(ui[j])
                  \* 'Yes, Add Time'
                  /\ AnsweredWith(j, Str(<<"Y", "e", "s", ",", " ", "A", "d",
                      "d", " ", "T", "i", "m", "e">>))

\* before index i, the rounding warning was shown and answered
\* 'Continue Anyway'
RoundingAcceptedBefore(i) ==
    \E k \in 1..(i - 1) :
        IsRoundingWarning(ui[k]) /\ AnsweredWith(k, Str(ContinueAnyway))

\* the time text was parsed: cmd.minutes is parsed.minutes
TimeParsed ==
    /\ cmd.pc \in {"rounding", "confirmation", "addTimeLog", "done"}
    /\ \E j \in 1..(Len(ui) - 1) :
           /\ IsTimePrompt(ui[j])
           /\ Truthy(ui[j + 1].value)
           /\ parseTimeInput(ui[j + 1].value) # null

\* C14: in both commands, when the parsed minutes are not a multiple of 15
\* the rounding warning is shown before the final prompt and addTimeLog is
\* called only after 'Continue Anyway'; when they are a multiple of 15 no
\* rounding warning is shown.
C14_RoundingConfirmed ==
    TimeParsed =>
        IF cmd.minutes % QUARTER_HOUR_INTERVAL # 0
        THEN /\ \A j \in DOMAIN ui :
                    IsFinalPrompt(ui[j]) => RoundingAcceptedBefore(j)
             /\ \A i \in ApiCalls : RoundingAcceptedBefore(i)
        ELSE \A j \in DOMAIN ui : ~IsRoundingWarning(ui[j])

C14_Witness ==
    /\ TimeParsed
    /\ cmd.minutes = 23
    /\ \E i \in ApiCalls :
           /\ ui[i].minutes = 30
           /\ RoundingAcceptedBefore(i)

\* the command has run its precondition checks
ChecksDone == cmd.pc # "start" /\ rop = "getCurrentTaskId"

\* all that the command showed is one error message containing the text
OnlyErrorShown(text) ==
    /\ Len(ui) = 1
    /\ IsErrorMessage(ui[1])
    /\ Includes(ui[1].text, text)

\* C15: addTimeLogCommand checks its preconditions before any prompt: with
\* no task ID from the resolver it shows an error containing 'No active task
\* found'; with a task ID and no token it shows the 'Authentication failed'
\* message; in both cases it shows no input box, never calls addTimeLog and
\* resolves.
C15_AddTimePreconditions ==
    (cmd.name = "addTimeLogCommand" /\ ChecksDone) =>
        /\ ~Truthy(rret.value) =>
               \* 'No active task found'
               /\ OnlyErrorShown(<<"N", "o", " ", "a", "c", "t", "i", "v",
                                   "e", " ", "t", "a", "s", "k", " ", "f",
                                   "o", "u", "n", "d">>)
               /\ cmd.pc = "done" /\ cmd.outcome = "resolved"
        /\ (Truthy(rret.value) /\ aret.value = null) =>
               \* 'Authentication failed'
               /\ OnlyErrorShown(<<"A", "u", "t", "h", "e", "n", "t", "i",
                                   "c", "a", "t", "i", "o", "n", " ", "f",
                                   "a", "i", "l", "e", "d">>)
               /\ cmd.pc = "done" /\ cmd.outcome = "resolved"

C15_Witness ==
    /\ cmd.name = "addTimeLogCommand"
    /\ ChecksDone
    /\ rret.value = Str(<<"B", "-", "1">>)
    /\ aret.value = null
    /\ ui = <<UIEvent("showErrorMessage",
                      \* 'Authentication failed. Please check your API token in settings.'
                      <<"A", "u", "t", "h", "e", "n", "t", "i", "c", "a",
                        "t", "i", "o", "n", " ", "f", "a", "i", "l", "e",
                        "d", ".", " ", "P", "l", "e", "a", "s", "e", " ",
                        "c", "h", "e", "c", "k", " ", "y", "o", "u", "r",
                        " ", "A", "P", "I", " ", "t", "o", "k", "e", "n",
                        " ", "i", "n", " ", "s", "e", "t", "t", "i", "n",
                        "g", "s", ".">>,
                      <<>>)>>


\* the answer given to the time prompt before event i
TimeAnswerBefore(i) ==
    LET j == CHOOSE k \in 1..(i - 1) : IsTimePrompt(ui[k])
    IN ui[j + 1].value

\* C25: every payload handed to apiClient.addTimeLog by addTimeLogCommand
\* or commitTimeLogCommand has minutes that are a positive multiple of 15
\* not greater than 480 (never zero), equal to the roundedMinutes that
\* validateTimeEntry returns for the parsed input.
C25_ValidRoundedEntry ==
    \A i \in ApiCalls :
        /\ ui[i].minutes > 0
        /\ ui[i].minutes % QUARTER_HOUR_INTERVAL = 0
        /\ ui[i].minutes <= MAX_MINUTES_PER_ENTRY
        /\ LET p == parseTimeInput(TimeAnswerBefore(i))
           IN /\ p # null
              /\ ui[i].minutes = validateTimeEntry(p.minutes).roundedMinutes

IsRefresh(e) ==
    /\ e.kind = "executeCommand"
    \* 'commutatus-tracker.showTask'
    /\ e.text = <<"c", "o", "m", "m", "u", "t", "a", "t", "u", "s", "-", "t",
                  "r", "a", "c", "k", "e", "r", ".", "s", "h", "o", "w", "T",
                  "a", "s", "k">>

\* the events from the settling of addTimeLog on
AfterSettled(i) == SubSeq(ui, i + 1, Len(ui))

\* C26: when apiClient.addTimeLog rejects, the command shows exactly one
\* error message, no success message, does not execute the
\* 'commutatus-tracker.showTask' refresh, and its promise resolves; when
\* addTimeLog resolves, the success message is shown and then the refresh
\* command is executed.
C26_FailedSubmissionReported ==
    \A i \in DOMAIN ui :
        ui[i].kind = "settled" =>
            LET after == AfterSettled(i)
            IN /\ cmd.pc = "done"
               /\ cmd.outcome = "resolved"
               /\ IF ui[i].ok
                  THEN /\ Len(after) = 2
                       /\ IsSuccess(after[1])
                       /\ IsRefresh(after[2])
                  ELSE /\ Len(after) = 1
                       /\ IsErrorMessage(after[1])
                       /\ \A k \in DOMAIN ui :
                              ~IsSuccess(ui[k]) /\ ~IsRefresh(ui[k])

\* a submission that the server refused
C26_Witness ==
    /\ cmd.pc = "done"
    /\ \E i \in DOMAIN ui :
           /\ ui[i].kind = "settled"
           /\ ~ui[i].ok
           /\ ui[i - 1].kind = "addTimeLog"
           /\ IsErrorMessage(ui[Len(ui)])

(***************************************************************************)
(* The API client (CommutatusApiClient).  authToken is its private field;  *)
(* http is the sequence of requests handed to fetch; lastSet is the        *)
(* argument of the most recent setAuthToken, NoReturn before the first.    *)
(* A JSON document is the value JSON.parse gives for it.                   *)
(***************************************************************************)
\* most requests one client issues
MaxRequests == 2

EmptyArray == [type |-> "array", items |-> <<>>]

\* a JSON object with the fields of a task; an absent field is undefined
TaskJson(id, title, description, logs, time_logs) ==
    [type |-> "object", id |-> id, title |-> title,
     description |-> description, logs |-> logs, time_logs |-> time_logs]

\* baseUrl.replace(/\/$/, '')
stripTrailingSlash(url) ==
    IF Len(url) > 0 /\ url[Len(url)] = "/"
    THEN SubSeq(url, 1, Len(url) - 1)
    ELSE url

\* encodeURIComponent, on the characters of the enumerated task IDs
encodeURIChar(c) ==
    CASE c = "/" -> <<"%", "2", "F">>
      [] c = " " -> <<"%", "2", "0">>
      [] OTHER -> <<c>>

RECURSIVE encodeURIComponent(_)
encodeURIComponent(cs) ==
    IF cs = <<>>
    THEN <<>>
    ELSE encodeURIChar(Head(cs)) \o encodeURIComponent(Tail(cs))

\* String(value) of a template literal
ToString(v) ==
    CASE v.type = "string" -> v.chars
      [] v.type = "null" -> <<"n", "u", "l", "l">>
      \* 'undefined'
      [] v.type = "undefined" -> <<"u", "n", "d", "e", "f", "i", "n", "e",
                                   "d">>
      \* '[object Object]'
      [] OTHER -> <<"[", "o", "b", "j", "e", "c", "t", " ", "O", "b", "j",
                    "e", "c", "t", "]">>

\* JSON.stringify(payload): a note that is undefined is left out
JSONstringify(payload) ==
    IF payload.time_log.note = undefined
    THEN [time_log |-> [minutes |-> payload.time_log.minutes]]
    ELSE payload

Bearer_NoScheme(token) == token.chars

Bearer(token) == <<"B", "e", "a", "r", "e", "r", " ">> \o token.chars

Request(method, url, token, body) ==
    [method |-> method, url |-> url, authorization |-> Bearer(token),
     body |-> body]

TOKEN_NOT_SET ==
    \* 'API token not set. Please configure your API token first.'
    <<"A", "P", "I", " ", "t", "o", "k", "e", "n", " ", "n", "o", "t", " ",
      "s", "e", "t", ".", " ", "P", "l", "e", "a", "s", "e", " ", "c", "o",
      "n", "f", "i", "g", "u", "r", "e", " ", "y", "o", "u", "r", " ", "A",
      "P", "I", " ", "t", "o", "k", "e", "n", " ", "f", "i", "r", "s", "t",
      ".">>

INVALID_TOKEN ==
    \* 'Invalid API token. Please check your authentication token.'
    <<"I", "n", "v", "a", "l", "i", "d", " ", "A", "P", "I", " ", "t", "o",
      "k", "e", "n", ".", " ", "P", "l", "e", "a", "s", "e", " ", "c", "h",
      "e", "c", "k", " ", "y", "o", "u", "r", " ", "a", "u", "t", "h", "e",
      "n", "t", "i", "c", "a", "t", "i", "o", "n", " ", "t", "o", "k", "e",
      "n", ".">>

taskNotFound(taskId) == <<"T", "a", "s", "k", " ">> \o taskId \o <<" ", "n",
                          "o", "t", " ", "f", "o", "u", "n", "d", ".">>

requestFailed(response) ==
    \* 'API request failed: '
    <<"A", "P", "I", " ", "r", "e", "q", "u", "e", "s", "t", " ", "f", "a",
      "i", "l", "e", "d", ":",
      " ">> \o NumToString(response.status) \o <<" ">>
        \o response.statusText

\* the error validateTaskResponse throws, <<>> when it accepts the task
validateTaskResponseError(task) ==
    IF ~Truthy(task) \/ task.type # "object"
    \* 'Invalid task response: not an object'
    THEN <<"I", "n", "v", "a", "l", "i", "d", " ", "t", "a", "s", "k", " ",
           "r", "e", "s", "p", "o", "n", "s", "e", ":", " ", "n", "o", "t",
           " ", "a", "n", " ", "o", "b", "j", "e", "c", "t">>
    ELSE IF ~Truthy(task.id) \/ task.id.type # "string"
    \* 'Invalid task response: missing or invalid id'
    THEN <<"I", "n", "v", "a", "l", "i", "d", " ", "t", "a", "s", "k", " ",
           "r", "e", "s", "p", "o", "n", "s", "e", ":", " ", "m", "i", "s",
           "s", "i", "n", "g", " ", "o", "r", " ", "i", "n", "v", "a", "l",
           "i", "d", " ", "i", "d">>
    ELSE IF ~Truthy(task.title) \/ task.title.type # "string"
    \* 'Invalid task response: missing or invalid title'
    THEN <<"I", "n", "v", "a", "l", "i", "d", " ", "t", "a", "s", "k", " ",
           "r", "e", "s", "p", "o", "n", "s", "e", ":", " ", "m", "i", "s",
           "s", "i", "n", "g", " ", "o", "r", " ", "i", "n", "v", "a", "l",
           "i", "d", " ", "t", "i", "t", "l", "e">>
    ELSE IF Truthy(task.description) /\ task.description.type # "string"
    \* 'Invalid task response: invalid description'
    THEN <<"I", "n", "v", "a", "l", "i", "d", " ", "t", "a", "s", "k", " ",
           "r", "e", "s", "p", "o", "n", "s", "e", ":", " ", "i", "n", "v",
           "a", "l", "i", "d", " ", "d", "e", "s", "c", "r", "i", "p", "t",
           "i", "o", "n">>
    ELSE <<>>

\* the Task that validateTaskResponse returns for an accepted task
validateTaskResponse(task) ==
    [id |-> task.id,
     title |-> task.title,
     description |-> IF Truthy(task.description)
                     THEN task.description ELSE Str(<<>>),
     logs |-> IF task.logs.type = "array" THEN task.logs ELSE EmptyArray,
     time_logs |-> IF task.time_logs.type = "array"
                   THEN task.time_logs ELSE EmptyArray]

Rejected(message, requests) ==
    [outcome |-> "rejected", error |-> message, requests |-> requests]

Resolved(value, requests) ==
    [outcome |-> "resolved", value |-> value, requests |-> requests]

\* what the catch block of getTask and addTimeLog rethrows for a thrown
\* value: an Error as it is, anything else wrapped
rethrown(prefix, thrown) ==
    IF thrown.type = "Error"
    THEN thrown.message
    ELSE prefix \o ToString(thrown)

\* the TypeError of reading errorData.message when the body is null
NULL_MESSAGE ==
    \* 'Cannot read properties of null (reading 'message')'
    <<"C", "a", "n", "n", "o", "t", " ", "r", "e", "a", "d", " ", "p", "r",
      "o", "p", "e", "r", "t", "i", "e", "s", " ", "o", "f", " ", "n", "u",
      "l", "l", " ", "(", "r", "e", "a", "d", "i", "n", "g", " ", "'", "m",
      "e", "s", "s", "a", "g", "e", "'", ")">>

\* getTask(taskId): the outcome and the requests issued, for the answer t
\* of the transport
getTask(base, token, taskId, t) ==
    IF ~Truthy(token)
    THEN Rejected(TOKEN_NOT_SET, <<>>)
    \* '/api/tasks/'
    ELSE LET url == base \o <<"/", "a", "p", "i", "/", "t", "a", "s", "k",
                              "s", "/">> \o encodeURIComponent(taskId)
             reqs == <<Request("GET", url, token, undefined)>>
         IN IF t.kind = "throws"
            \* 'Failed to fetch task: '
            THEN Rejected(rethrown(<<"F", "a", "i", "l", "e", "d", " ", "t",
                                     "o", " ", "f", "e", "t", "c", "h", " ",
                                     "t", "a", "s", "k", ":",
                                     " ">>, t.thrown), reqs)
            ELSE IF ~t.ok
            THEN IF t.status = 401
                 THEN Rejected(INVALID_TOKEN, reqs)
                 ELSE IF t.status = 404
                 THEN Rejected(taskNotFound(taskId), reqs)
                 ELSE Rejected(requestFailed(t), reqs)
            ELSE IF t.json.type = "SyntaxError"
            THEN Rejected(t.json.message, reqs)
            ELSE IF validateTaskResponseError(t.json) # <<>>
            THEN Rejected(validateTaskResponseError(t.json), reqs)
            ELSE Resolved(validateTaskResponse(t.json), reqs)

addTimeLog_UnauthorizedAsNotFound(base, token, taskId, payload, t) ==
    IF ~Truthy(token)
    THEN Rejected(TOKEN_NOT_SET, <<>>)
    \* '/api/tasks/'
    ELSE LET url == base \o <<"/", "a", "p", "i", "/", "t", "a", "s", "k",
                              "s", "/">> \o encodeURIComponent(taskId)
                        \* '/time_logs'
                        \o <<"/", "t", "i", "m", "e", "_", "l", "o", "g",
                             "s">>
             reqs == <<Request("POST", url, token, JSONstringify(payload))>>
         IN IF t.kind = "throws"
            \* 'Failed to add time log: '
            THEN Rejected(rethrown(<<"F", "a", "i", "l", "e", "d", " ", "t",
                                     "o", " ", "a", "d", "d", " ", "t", "i",
                                     "m", "e", " ", "l", "o", "g", ":",
                                     " ">>, t.thrown), reqs)
            ELSE IF ~t.ok
            THEN IF t.status = 401 \/ t.status = 404
                 THEN Rejected(taskNotFound(taskId), reqs)
                 ELSE IF t.status = 400
                 THEN IF t.json = null
                      THEN Rejected(NULL_MESSAGE, reqs)
                      ELSE Rejected(
                        \* 'Invalid time log data: '
                        <<"I", "n", "v", "a", "l", "i", "d", " ", "t", "i",
                          "m", "e", " ", "l", "o", "g", " ", "d", "a", "t",
                          "a", ":", " ">> \o
                        (IF t.json.type = "object" /\ Truthy(t.json.message)
                         THEN ToString(t.json.message)
                         \* 'Unknown error'
                         ELSE <<"U", "n", "k", "n", "o", "w", "n", " ", "e",
                                "r", "r", "o", "r">>), reqs)
                 ELSE Rejected(requestFailed(t), reqs)
            ELSE Resolved(undefined, reqs)

\* addTimeLog(taskId, payload): the outcome and the requests issued
addTimeLog(base, token, taskId, payload, t) ==
    IF ~Truthy(token)
    THEN Rejected(TOKEN_NOT_SET, <<>>)
    \* '/api/tasks/'
    ELSE LET url == base \o <<"/", "a", "p", "i", "/", "t", "a", "s", "k",
                              "s", "/">> \o encodeURIComponent(taskId)
                        \* '/time_logs'
                        \o <<"/", "t", "i", "m", "e", "_", "l", "o", "g",
                             "s">>
             reqs == <<Request("POST", url, token, JSONstringify(payload))>>
         IN IF t.kind = "throws"
            \* 'Failed to add time log: '
            THEN Rejected(rethrown(<<"F", "a", "i", "l", "e", "d", " ", "t",
                                     "o", " ", "a", "d", "d", " ", "t", "i",
                                     "m", "e", " ", "l", "o", "g", ":",
                                     " ">>, t.thrown), reqs)
            ELSE IF ~t.ok
            THEN IF t.status = 401
                 THEN Rejected(INVALID_TOKEN, reqs)
                 ELSE IF t.status = 404
                 THEN Rejected(taskNotFound(taskId), reqs)
                 ELSE IF t.status = 400
                 THEN IF t.json = null
                      THEN Rejected(NULL_MESSAGE, reqs)
                      ELSE Rejected(
                        \* 'Invalid time log data: '
                        <<"I", "n", "v", "a", "l", "i", "d", " ", "t", "i",
                          "m", "e", " ", "l", "o", "g", " ", "d", "a", "t",
                          "a", ":", " ">> \o
                        (IF t.json.type = "object" /\ Truthy(t.json.message)
                         THEN ToString(t.json.message)
                         \* 'Unknown error'
                         ELSE <<"U", "n", "k", "n", "o", "w", "n", " ", "e",
                                "r", "r", "o", "r">>), reqs)
                 ELSE Rejected(requestFailed(t), reqs)
            ELSE Resolved(undefined, reqs)


\* a response of the server; response.ok is true for the 2xx statuses
Response(status, statusText, json) ==
    [kind |-> "response", ok |-> status \in 200..299, status |-> status,
     statusText |-> statusText, json |-> json]

\* fetch rejects with the thrown value
Throws(thrown) == [kind |-> "throws", thrown |-> thrown]

\* response.json() rejects: the body is not JSON
NotJson == [type |-> "SyntaxError", message |-> <<"U", "n", "e", "x", "p",
    "e", "c", "t", "e", "d", " ", "t", "o", "k", "e", "n">>]

ErrorJson(message) == [type |-> "object", message |-> message]

\* bodies of a 2xx response
TaskBodies ==
    LET id == Str(<<"A", "-", "1">>)
        title == Str(<<"t">>)
    IN {TaskJson(id, title, undefined, undefined, undefined),
        TaskJson(id, title, Str(<<"d">>), EmptyArray, EmptyArray),
        TaskJson(undefined, title, undefined, undefined, undefined),
        TaskJson(id, EmptyArray, undefined, undefined, undefined),
        TaskJson(id, title, EmptyArray, undefined, undefined),
        null, Str(<<"x">>), NotJson}

\* bodies of an error response
ErrorBodies == {ErrorJson(Str(<<"b", "a",
                                "d">>)), ErrorJson(undefined), NotJson}

TransportAnswers ==
    {Response(200, <<"O", "K">>, b) : b \in TaskBodies}
    \* 'Bad Request'
    \cup {Response(400, <<"B", "a", "d", " ", "R", "e", "q", "u", "e", "s",
                          "t">>, b) : b \in ErrorBodies}
    \* 'Unauthorized'
    \cup {Response(401, <<"U", "n", "a", "u", "t", "h", "o", "r", "i", "z",
                          "e", "d">>, ErrorJson(undefined))}
    \* 'Not Found'
    \cup {Response(404, <<"N", "o", "t", " ", "F", "o", "u", "n",
                          "d">>, ErrorJson(undefined))}
    \* 'Internal Server Error'
    \cup {Response(500, <<"I", "n", "t", "e", "r", "n", "a", "l", " ", "S",
                          "e", "r", "v", "e", "r", " ", "E", "r", "r", "o",
                          "r">>, ErrorJson(undefined))}
    \* 'Network error'
    \cup {Throws(Error(<<"N", "e", "t", "w", "o", "r", "k", " ", "e", "r",
                         "r", "o", "r">>)), Throws(Str(<<"x">>))}

ApiTaskIds == {<<"A", "-", "1">>, <<"a", "/", "b">>}

ClientTokens == {Str(<<"x">>), Str(<<"y">>), Str(<<>>)}

Payloads ==
    {[time_log |-> [minutes |-> m, note |-> n]] :
        m \in {15}, n \in {undefined, Str(<<"n">>)}}

BaseUrls == {<<"h">>, <<"h", "/">>, <<"h", "/", "v", "/">>}

\* new CommutatusApiClient(baseUrl)
ApiInit ==
    /\ \E url \in BaseUrls : baseUrl = stripTrailingSlash(url)
    /\ authToken = null
    /\ lastSet = NoReturn
    /\ http = <<>>
    /\ apiop = "none"
    /\ apiret = NoReturn
    /\ entry = "none" /\ calls = <<>> /\ input = null /\ minutes = 0
    /\ parsed = null /\ rounded = 0 /\ validation = NoValidation
    /\ formatted = <<>> /\ confirmation = FALSE
    /\ ResolverIdle /\ AuthIdle /\ CmdIdle /\ ExtIdle

SetAuthToken ==
    /\ \E token \in ClientTokens :
           /\ authToken' = token
           /\ lastSet' = token
    /\ apiop' = "setAuthToken"
    /\ apiret' = [outcome |-> "returned"]
    /\ UNCHANGED <<baseUrl, http>>
    /\ UNCHANGED <<timeVars, resolverVars, authVars, cmdVars, extVars>>

\* a call of getTask, recorded with its argument, the answer of the
\* transport and the setAuthToken it follows
GetTask ==
    /\ Len(http) < MaxRequests
    /\ \E taskId \in ApiTaskIds, t \in TransportAnswers :
       \E r \in {getTask(baseUrl, authToken, taskId, t)} :
           /\ http' = http \o r.requests
           /\ apiop' = "getTask"
           /\ apiret' = [outcome |-> r.outcome,
                         error |-> IF r.outcome = "rejected"
                                   THEN r.error ELSE <<>>,
                         value |-> IF r.outcome = "resolved"
                                   THEN r.value ELSE undefined,
                         requests |-> r.requests,
                         taskId |-> taskId, transport |-> t,
                         lastSet |-> lastSet]
    /\ UNCHANGED <<baseUrl, authToken, lastSet>>
    /\ UNCHANGED <<timeVars, resolverVars, authVars, cmdVars, extVars>>

AddTimeLog ==
    /\ Len(http) < MaxRequests
    /\ \E taskId \in ApiTaskIds, payload \in Payloads,
          t \in TransportAnswers :
       \E r \in {addTimeLog(baseUrl, authToken, taskId, payload, t)} :
           /\ http' = http \o r.requests
           /\ apiop' = "addTimeLog"
           /\ apiret' = [outcome |-> r.outcome,
                         error |-> IF r.outcome = "rejected"
                                   THEN r.error ELSE <<>>,
                         value |-> undefined,
                         requests |-> r.requests,
                         taskId |-> taskId, transport |-> t,
                         lastSet |-> lastSet]
    /\ UNCHANGED <<baseUrl, authToken, lastSet>>
    /\ UNCHANGED <<timeVars, resolverVars, authVars, cmdVars, extVars>>

ApiNext ==
    \/ SetAuthToken
    \/ GetTask
    \/ AddTimeLog

ApiSpec == ApiInit /\ [][ApiNext]_vars


(***************************************************************************)
(* Claims about the API client                                             *)
(***************************************************************************)
ApiCallReturned == apiop \in {"getTask", "addTimeLog"}

StartsWith(s, prefix) ==
    Len(s) >= Len(prefix) /\ SubSeq(s, 1, Len(prefix)) = prefix

\* C22: while setAuthToken has not been called, getTask and addTimeLog
\* reject with an error containing 'API token not set' and issue no HTTP
\* request; every request a call issues carries 'Authorization: Bearer t'
\* for the t of the most recent setAuthToken.
C22_TokenRequired ==
    ApiCallReturned =>
        /\ apiret.lastSet = NoReturn =>
              /\ apiret.outcome = "rejected"
              \* 'API token not set'
              /\ Includes(apiret.error, <<"A", "P", "I", " ", "t", "o", "k",
                  "e", "n", " ", "n", "o", "t", " ", "s", "e", "t">>)
              /\ apiret.requests = <<>>
        /\ \A i \in DOMAIN apiret.requests :
              /\ apiret.lastSet # NoReturn
              /\ apiret.requests[i].authorization =
                     <<"B", "e", "a", "r", "e", "r",
                       " ">> \o apiret.lastSet.chars
        /\ Len(http) >= Len(apiret.requests)
        /\ SubSeq(http, Len(http) - Len(apiret.requests) + 1, Len(http))
               = apiret.requests

\* two requests of one client, the second after the token was replaced
C22_Witness ==
    /\ apiop = "addTimeLog"
    /\ Len(http) = 2
    /\ http[1].authorization = <<"B", "e", "a", "r", "e", "r",
                                 " ">> \o <<"x">>
    /\ http[2].authorization = <<"B", "e", "a", "r", "e", "r",
                                 " ">> \o <<"y">>
    /\ apiret.lastSet = Str(<<"y">>)

\* the server's message of an error body, undefined when it has none
ServerMessage(json) ==
    IF json # null /\ json.type = "object" /\ Truthy(json.message)
    THEN json.message
    ELSE undefined

MaxHandled == 2

HandledErrors ==
    \* 'API token not found'
    \* 'not found: fetch'
    \* 'network Invalid time'
    \* 'Invalid time fetch'
    \* 'Invalid time'
    \* 'Network error'
    {Error(<<"A", "P", "I", " ", "t", "o", "k", "e", "n", " ", "n", "o", "t",
             " ", "f", "o", "u", "n", "d">>), Error(<<"n", "o", "t", " ",
             "f", "o", "u", "n", "d", ":", " ", "f", "e", "t", "c",
             "h">>), Error(<<"n", "e", "t", "w", "o", "r", "k", " ", "I",
             "n", "v", "a", "l", "i", "d", " ", "t", "i", "m",
             "e">>), Error(<<"I", "n", "v", "a", "l", "i", "d", " ", "t",
             "i", "m", "e", " ", "f", "e", "t", "c", "h">>), Error(<<"I",
             "n", "v", "a", "l", "i", "d", " ", "t", "i", "m",
             "e">>), Error(<<"N", "e", "t", "w", "o", "r", "k", " ", "e",
             "r", "r", "o", "r">>),
     \* 'Invalid API token'
     \* 'Task A-1 not found.'
     Error(<<"I", "n", "v", "a", "l", "i", "d", " ", "A", "P", "I", " ", "t",
             "o", "k", "e", "n">>), Error(<<"T", "a", "s", "k", " ", "A",
             "-", "1", " ", "n", "o", "t", " ", "f", "o", "u", "n", "d",
             ".">>), Error(<<"x">>), Error(<<>>),
     Str(<<"A", "P", "I", " ", "t", "o", "k", "e", "n">>), null, undefined}

HandlerContexts == {<<"a", "d", "d", " ", "t", "i", "m", "e", " ", "l", "o",
                      "g">>, <<"x">>}

HandlerInit ==
    /\ cmd = [pc |-> "idle"]
    /\ ui = <<>>
    /\ entry = "none" /\ calls = <<>> /\ input = null /\ minutes = 0
    /\ parsed = null /\ rounded = 0 /\ validation = NoValidation
    /\ formatted = <<>> /\ confirmation = FALSE
    /\ ResolverIdle /\ AuthIdle /\ ApiIdle /\ ExtIdle

HandleCommandError ==
    /\ cmd.pc \in {"idle", "handled"}
    /\ Len(ui) < MaxHandled
    /\ \E error \in HandledErrors, context \in HandlerContexts,
          showToUser \in BOOLEAN :
       \E shown \in {handleCommandError(error, context, showToUser)} :
           /\ cmd' = [pc |-> "handled", error |-> error, context |-> context,
                      showToUser |-> showToUser, shown |-> shown,
                      outcome |-> "returned"]
           /\ ui' = ui \o shown
    /\ UNCHANGED <<timeVars, resolverVars, authVars, apiVars, extVars>>

HandlerNext == HandleCommandError

HandlerSpec == HandlerInit /\ [][HandlerNext]_vars

\* the rules of the user message, in their order: the texts looked for in
\* the error's message and the message shown
MessageRules ==
    \* 'API token'
    \* 'Authentication failed. Please check your API token in settings.'
    <<[keys |-> {<<"A", "P", "I", " ", "t", "o", "k", "e",
                   "n">>}, text |-> <<"A", "u", "t", "h", "e", "n", "t", "i",
                   "c", "a", "t", "i", "o", "n", " ", "f", "a", "i", "l",
                   "e", "d", ".", " ", "P", "l", "e", "a", "s", "e", " ",
                   "c", "h", "e", "c", "k", " ", "y", "o", "u", "r", " ",
                   "A", "P", "I", " ", "t", "o", "k", "e", "n", " ", "i",
                   "n", " ", "s", "e", "t", "t", "i", "n", "g", "s", ".">>],
      \* 'not found'
      \* 'Task not found. Please check your task ID.'
      [keys |-> {<<"n", "o", "t", " ", "f", "o", "u", "n",
                   "d">>}, text |-> <<"T", "a", "s", "k", " ", "n", "o", "t",
                   " ", "f", "o", "u", "n", "d", ".", " ", "P", "l", "e",
                   "a", "s", "e", " ", "c", "h", "e", "c", "k", " ", "y",
                   "o", "u", "r", " ", "t", "a", "s", "k", " ", "I", "D",
                   ".">>],
      \* 'Network error. Please check your internet connection and try again.'
      [keys |-> {<<"n", "e", "t", "w", "o", "r", "k">>, <<"f", "e", "t", "c",
                   "h">>}, text |-> <<"N", "e", "t", "w", "o", "r", "k", " ",
                   "e", "r", "r", "o", "r", ".", " ", "P", "l", "e", "a",
                   "s", "e", " ", "c", "h", "e", "c", "k", " ", "y", "o",
                   "u", "r", " ", "i", "n", "t", "e", "r", "n", "e", "t",
                   " ", "c", "o", "n", "n", "e", "c", "t", "i", "o", "n",
                   " ", "a", "n", "d", " ", "t", "r", "y", " ", "a", "g",
                   "a", "i", "n", ".">>],
      \* 'Invalid time'
      \* 'Invalid time format. Please use formats like: 90, 1h, 1h 30m, 01:30'
      [keys |-> {<<"I", "n", "v", "a", "l", "i", "d", " ", "t", "i", "m",
                   "e">>}, text |-> <<"I", "n", "v", "a", "l", "i", "d", " ",
                   "t", "i", "m", "e", " ", "f", "o", "r", "m", "a", "t",
                   ".", " ", "P", "l", "e", "a", "s", "e", " ", "u", "s",
                   "e", " ", "f", "o", "r", "m", "a", "t", "s", " ", "l",
                   "i", "k", "e", ":", " ", "9", "0", ",", " ", "1", "h",
                   ",", " ", "1", "h", " ", "3", "0", "m", ",", " ", "0",
                   "1", ":", "3", "0">>]>>

RuleMatches(i, message) ==
    \E k \in MessageRules[i].keys : Includes(message, k)

\* C24: handleCommandError returns without throwing; with showToUser it
\* shows exactly one error message, the text of the first rule that
\* matches the error's message in the order 'API token', 'not found',
\* 'network' or 'fetch', 'Invalid time', and 'Failed to <context>.
\* <message>' when none matches; a value that is not an Error has the
\* message 'Unknown error'; without showToUser it shows nothing.
C24_UserMessage ==
    cmd.pc = "handled" =>
        LET message == IF cmd.error.type = "Error"
                       THEN cmd.error.message
                       \* 'Unknown error'
                       ELSE <<"U", "n", "k", "n", "o", "w", "n", " ", "e",
                              "r", "r", "o", "r">>
            matching == {i \in DOMAIN MessageRules : RuleMatches(i, message)}
            expected ==
                IF matching = {}
                \* 'Failed to '
                THEN <<"F", "a", "i", "l", "e", "d", " ", "t", "o",
                       " ">> \o cmd.context \o <<".", " ">> \o message
                ELSE MessageRules[CHOOSE i \in matching :
                                      \A j \in matching : i <= j].text
        IN /\ cmd.outcome = "returned"
           /\ Len(ui) >= Len(cmd.shown)
           /\ SubSeq(ui, Len(ui) - Len(cmd.shown) + 1, Len(ui)) = cmd.shown
           /\ IF cmd.showToUser
              THEN /\ Len(cmd.shown) = 1
                   /\ cmd.shown[1].kind = "showErrorMessage"
                   /\ cmd.shown[1].text = expected
              ELSE cmd.shown = <<>>

\* an error whose message matches the third and the fourth rule is shown
\* as a network error
C24_Witness ==
    /\ cmd.pc = "handled"
    \* 'network Invalid time'
    /\ cmd.error = Error(<<"n", "e", "t", "w", "o", "r", "k", " ", "I", "n",
                           "v", "a", "l", "i", "d", " ", "t", "i", "m", "e">>)
    /\ cmd.showToUser
    /\ Len(ui) = 1
    \* 'Network error. Please check your internet connection and try again.'
    /\ ui[1].text = <<"N", "e", "t", "w", "o", "r", "k", " ", "e", "r", "r",
                      "o", "r", ".", " ", "P", "l", "e", "a", "s", "e", " ",
                      "c", "h", "e", "c", "k", " ", "y", "o", "u", "r", " ",
                      "i", "n", "t", "e", "r", "n", "e", "t", " ", "c", "o",
                      "n", "n", "e", "c", "t", "i", "o", "n", " ", "a", "n",
                      "d", " ", "t", "r", "y", " ", "a", "g", "a", "i", "n",
                      ".">>


(***************************************************************************)
(* The task view (TaskWebviewProvider) and the branch watcher of activate. *)
(* view and panel hold the page last assigned to webview.html, with the    *)
(* number of the refreshTaskData call that assigned it (0: the page set    *)
(* when the webview was created).  refreshes holds the refreshTaskData     *)
(* calls in the order they started, branchHandlers the updateCurrentBranch *)
(* calls that found a new branch name.  A call runs from one await to the  *)
(* next in one step.                                                       *)
(***************************************************************************)
\* most refreshTaskData calls in one behaviour
MaxRefreshes == 3

\* _getHtmlForWebview: 'Loading task details...'
LoadingPage == [kind |-> "loading"]

\* _getNoTaskHtml
NoTaskPage == [kind |-> "noTask"]

\* _getErrorHtml(errorMessage)
ErrorPage(errorMessage) == [kind |-> "error", message |-> errorMessage]

\* _getHtmlForTask(task): the page shows task.id and task.title
TaskPage(task) == [kind |-> "task", id |-> task.id, title |-> task.title]

\* webview.html = page, by the refresh numbered n, when the webview exists
Assign(webview, page, n) ==
    IF webview = NoWebview
    THEN webview
    ELSE [kind |-> "webview", html |-> page, by |-> n]

\* refreshTaskData up to its first await (the services are initialized)
NewRefresh == [pc |-> "getCurrentTaskId", taskId |-> null, wrote |-> FALSE]

\* refreshTaskData after await getCurrentTaskId(): the page it assigns at
\* once when there is no task, else the getTask call it awaits
refreshResolved(r, taskId) ==
    IF ~Truthy(taskId)
    THEN [refresh |-> [r EXCEPT !.pc = "done"], page |-> NoTaskPage,
          writes |-> TRUE]
    ELSE [refresh |-> [r EXCEPT !.pc = "getTask", !.taskId = taskId],
          page |-> NoTaskPage, writes |-> FALSE]

\* refreshTaskData after await getTask(taskId): the task's page, or the
\* error page with the message of the rejection
refreshFetched(r, result) ==
    [refresh |-> [r EXCEPT !.pc = "done"],
     page |-> IF result.outcome = "resolved"
              THEN TaskPage(result.value)
              ELSE ErrorPage(result.error),
     writes |-> TRUE]

\* the branches of the watched repository
WatchedBranches ==
    \* 'feature/A-1'
    \* 'feature/B-1'
    {Git(<<"m", "a", "i", "n">>), Git(<<"f", "e", "a", "t", "u", "r", "e",
           "/", "A", "-", "1">>), Git(<<"f", "e", "a", "t", "u", "r", "e",
           "/", "B", "-", "1">>)}

\* the answers of the server to getTask(taskId)
TaskAnswers(taskId) ==
    {Response(200, <<"O", "K">>,
              TaskJson(taskId, Str(<<"t">>), undefined, undefined, undefined)),
     \* 'Network error'
     Throws(Error(<<"N", "e", "t", "w", "o", "r", "k", " ", "e", "r", "r",
                    "o", "r">>))}

\* the state after activate: the status bar was updated, the branch name
\* was noted, the client has its token, no webview exists yet
WebviewInit ==
    /\ git \in WatchedBranches
    /\ hasContext = TRUE
    /\ LET u == updateStatusBar(git, TRUE, undefined, NewStatusBarItem)
       IN /\ workspaceState = u.stored
          /\ statusBar = u.bar
    /\ currentBranch = HeadName(git)
    /\ typed = undefined
    /\ rop = "none"
    /\ rret = NoReturn
    /\ manual = null
    /\ baseUrl = <<"h">>
    /\ authToken = Str(<<"x">>)
    /\ lastSet = Str(<<"x">>)
    /\ http = <<>>
    /\ apiop = "none"
    /\ apiret = NoReturn
    /\ view = NoWebview
    /\ panel = NoWebview
    /\ refreshes = <<>>
    /\ branchHandlers = <<>>
    /\ tokenLoad = [pc |-> "idle"]
    /\ tokenCmd = [pc |-> "idle"]
    /\ submission = [pc |-> "idle"]
    /\ entry = "none" /\ calls = <<>> /\ input = null /\ minutes = 0
    /\ parsed = null /\ rounded = 0 /\ validation = NoValidation
    /\ formatted = <<>> /\ confirmation = FALSE
    /\ AuthIdle /\ CmdIdle

\* resolveWebviewView: the sidebar view is created and a refresh starts
ResolveWebviewView ==
    /\ view = NoWebview
    /\ Len(refreshes) < MaxRefreshes
    /\ view' = [kind |-> "webview", html |-> LoadingPage, by |-> 0]
    /\ refreshes' = Append(refreshes, NewRefresh)
    /\ UNCHANGED <<panel, branchHandlers, tokenLoad, tokenCmd, submission>>
    /\ UNCHANGED <<timeVars, resolverVars, authVars, cmdVars, apiVars>>

\* showTaskWebview: the panel is created and a refresh starts
ShowTaskWebview ==
    /\ panel = NoWebview
    /\ Len(refreshes) < MaxRefreshes
    /\ panel' = [kind |-> "webview", html |-> LoadingPage, by |-> 0]
    /\ refreshes' = Append(refreshes, NewRefresh)
    /\ UNCHANGED <<view, branchHandlers, tokenLoad, tokenCmd, submission>>
    /\ UNCHANGED <<timeVars, resolverVars, authVars, cmdVars, apiVars>>

\* the webview posts 'refresh' or 'ready'
WebviewMessage ==
    /\ view # NoWebview \/ panel # NoWebview
    /\ Len(refreshes) < MaxRefreshes
    /\ refreshes' = Append(refreshes, NewRefresh)
    /\ UNCHANGED <<view, panel, branchHandlers, tokenLoad, tokenCmd,
                   submission>>
    /\ UNCHANGED <<timeVars, resolverVars, authVars, cmdVars, apiVars>>

\* the user checks out another branch; the git extension reports the
\* change and updateCurrentBranch runs up to await updateStatusBar()
CheckoutBranch ==
    /\ Len(branchHandlers) + Len(refreshes) < MaxRefreshes
    /\ \E g \in WatchedBranches :
           /\ g # git
           /\ git' = g
           /\ IF HeadName(g) # currentBranch /\ HeadName(g) # <<>>
              THEN /\ currentBranch' = HeadName(g)
                   /\ branchHandlers' =
                          Append(branchHandlers, [pc |-> "updateStatusBar"])
              ELSE UNCHANGED <<currentBranch, branchHandlers>>
    /\ UNCHANGED <<hasContext, workspaceState, typed, rop, rret, manual,
                   statusBar>>
    /\ UNCHANGED <<view, panel, refreshes, tokenLoad, tokenCmd, submission>>
    /\ UNCHANGED <<timeVars, authVars, cmdVars, apiVars>>

\* updateCurrentBranch continues: updateStatusBar completes and
\* refreshTaskData starts
StatusBarUpdated ==
    \E h \in DOMAIN branchHandlers :
        /\ branchHandlers[h].pc = "updateStatusBar"
        /\ \E u \in {updateStatusBar(git, hasContext, workspaceState,
                                     statusBar)} :
               /\ workspaceState' = u.stored
               /\ statusBar' = u.bar
        /\ branchHandlers' = [branchHandlers EXCEPT ![h].pc = "done"]
        /\ refreshes' = Append(refreshes, NewRefresh)
        /\ UNCHANGED <<git, hasContext, typed, rop, rret, manual,
                       currentBranch>>
        /\ UNCHANGED <<view, panel, tokenLoad, tokenCmd, submission>>
        /\ UNCHANGED <<timeVars, authVars, cmdVars, apiVars>>

\* a refresh continues after await getCurrentTaskId()
TaskIdResolved ==
    \E i \in DOMAIN refreshes :
        /\ refreshes[i].pc = "getCurrentTaskId"
        /\ \E r \in {getCurrentTaskId(git, hasContext, workspaceState)} :
           \E step \in {refreshResolved(refreshes[i], r.value)} :
               /\ workspaceState' = r.stored
               /\ refreshes' =
                      [refreshes EXCEPT
                          ![i] = [step.refresh EXCEPT
                                     !.wrote = step.writes]]
               /\ IF step.writes
                  THEN /\ view' = Assign(view, step.page, i)
                       /\ panel' = Assign(panel, step.page, i)
                  ELSE UNCHANGED <<view, panel>>
        /\ UNCHANGED <<git, hasContext, typed, rop, rret, manual, statusBar,
                       currentBranch>>
        /\ UNCHANGED <<branchHandlers, tokenLoad, tokenCmd, submission>>
        /\ UNCHANGED <<timeVars, authVars, cmdVars, apiVars>>

\* a refresh continues after await getTask(taskId)
TaskFetched ==
    \E i \in DOMAIN refreshes :
        /\ refreshes[i].pc = "getTask"
        /\ \E t \in TaskAnswers(refreshes[i].taskId) :
           \E result \in {getTask(baseUrl, authToken,
                                  refreshes[i].taskId.chars, t)} :
           \E step \in {refreshFetched(refreshes[i], result)} :
               /\ http' = http \o result.requests
               /\ refreshes' =
                      [refreshes EXCEPT
                          ![i] = [step.refresh EXCEPT
                                     !.wrote = step.writes]]
               /\ IF step.writes
                  THEN /\ view' = Assign(view, step.page, i)
                       /\ panel' = Assign(panel, step.page, i)
                  ELSE UNCHANGED <<view, panel>>
        /\ UNCHANGED <<baseUrl, authToken, lastSet, apiop, apiret>>
        /\ UNCHANGED <<branchHandlers, tokenLoad, tokenCmd, submission>>
        /\ UNCHANGED <<timeVars, resolverVars, authVars, cmdVars>>

WebviewNext ==
    \/ ResolveWebviewView
    \/ ShowTaskWebview
    \/ WebviewMessage
    \/ CheckoutBranch
    \/ StatusBarUpdated
    \/ TaskIdResolved
    \/ TaskFetched

WebviewSpec == WebviewInit /\ [][WebviewNext]_vars


(***************************************************************************)
(* Claims about the task view                                              *)
(***************************************************************************)
\* nothing is pending: every branch change was handled and every refresh
\* has completed
Quiescent ==
    /\ \A h \in DOMAIN branchHandlers : branchHandlers[h].pc = "done"
    /\ \A i \in DOMAIN refreshes : refreshes[i].pc = "done"

\* the task ID that getCurrentTaskId resolves on the branch checked out
CurrentTaskIdOfBranch ==
    IF ExpectedBranchTaskId(git) # null
    THEN ExpectedBranchTaskId(git)
    ELSE StoredId(hasContext, workspaceState)

\* the webview shows the page of the task ID, or could not load it
ShowsTask(webview, taskId) ==
    webview # NoWebview =>
        \/ webview.by = 0
        \/ webview.html.kind = "error"
        \/ IF taskId = null
           THEN webview.html.kind = "noTask"
           ELSE webview.html.kind = "task" /\ webview.html.id = taskId

\* no refresh that started after the writer of the page has written
WrittenByLatest(webview) ==
    webview # NoWebview =>
        \A j \in DOMAIN refreshes :
            j > webview.by => ~refreshes[j].wrote

\* C27: once the branch switches have stopped and every pending
\* refreshTaskData has completed, the sidebar view and the panel show the
\* page of the task ID that getCurrentTaskId resolves for the current
\* branch; and a refresh that started earlier never overwrites the page
\* written by a refresh that started after it.
C27_ViewFollowsBranch ==
    /\ Quiescent =>
           /\ ShowsTask(view, CurrentTaskIdOfBranch)
           /\ ShowsTask(panel, CurrentTaskIdOfBranch)
    /\ WrittenByLatest(view)
    /\ WrittenByLatest(panel)


(***************************************************************************)
(* The token of the API client: the load that activate starts              *)
(* (authManager.getApiToken().then(...)), setApiTokenCommand, and the      *)
(* token check and the API call of addTimeLogCommand.  Each runs from one  *)
(* await to the next in one step.                                          *)
(***************************************************************************)
\* what the user enters in the token box (undefined: the box is dismissed)
TokenInputs ==
    {undefined, Str(<<>>), Str(<<"y">>), Str(<<" ", "y", " ">>)}

\* setApiTokenCommand after the input box: returns when nothing was
\* entered, else awaits authManager.setApiToken(token.trim())
tokenEntered(token) ==
    IF ~Truthy(token)
    THEN [pc |-> "done", input |-> token, outcome |-> "cancelled"]
    ELSE [pc |-> "setApiToken", input |-> token, outcome |-> "pending"]

\* setApiTokenCommand after await setApiToken: the catch block shows the
\* error of a rejection
tokenStored(c, r) ==
    IF r.outcome = "rejected"
    THEN [cmd |-> [c EXCEPT !.pc = "done", !.outcome = "failed"],
          ui |-> <<UIEvent("showErrorMessage",
                           \* 'Failed to set API token: '
                           <<"F", "a", "i", "l", "e", "d", " ", "t", "o",
                             " ", "s", "e", "t", " ", "A", "P", "I", " ",
                             "t", "o", "k", "e", "n", ":",
                             " ">> \o r.error, <<>>)>>]
    ELSE [cmd |-> [c EXCEPT !.pc = "setAuthToken"], ui |-> <<>>]

\* the state after activate with a client that has no token yet: the load
\* of the stored token is under way
TokenInit ==
    /\ secret \in {undefined, Str(<<"x">>)}
    /\ secretFails \in BOOLEAN
    /\ aop = "none"
    /\ aret = NoReturn
    /\ hadFailedRead = FALSE
    /\ baseUrl = <<"h">>
    /\ authToken = null
    /\ lastSet = NoReturn
    /\ http = <<>>
    /\ apiop = "none"
    /\ apiret = NoReturn
    /\ tokenLoad = [pc |-> "getApiToken"]
    /\ tokenCmd = [pc |-> "idle"]
    /\ submission = [pc |-> "idle"]
    /\ view = NoWebview
    /\ panel = NoWebview
    /\ refreshes = <<>>
    /\ branchHandlers = <<>>
    /\ entry = "none" /\ calls = <<>> /\ input = null /\ minutes = 0
    /\ parsed = null /\ rounded = 0 /\ validation = NoValidation
    /\ formatted = <<>> /\ confirmation = FALSE
    /\ ResolverIdle /\ CmdIdle

\* the load continues after the read of the secret storage
TokenRead ==
    /\ tokenLoad.pc = "getApiToken"
    /\ \E r \in {getApiToken(secret, secretFails)} :
           tokenLoad' = [pc |-> "then", token |-> r.value]
    /\ UNCHANGED <<view, panel, refreshes, branchHandlers, tokenCmd,
                   submission>>
    /\ UNCHANGED <<timeVars, resolverVars, authVars, cmdVars, apiVars>>

\* the callback of the load: if (token) apiClient.setAuthToken(token)
TokenLoaded ==
    /\ tokenLoad.pc = "then"
    /\ tokenLoad' = [tokenLoad EXCEPT !.pc = "done"]
    /\ IF Truthy(tokenLoad.token)
       THEN authToken' = tokenLoad.token /\ lastSet' = tokenLoad.token
       ELSE UNCHANGED <<authToken, lastSet>>
    /\ UNCHANGED <<baseUrl, http, apiop, apiret>>
    /\ UNCHANGED <<view, panel, refreshes, branchHandlers, tokenCmd,
                   submission>>
    /\ UNCHANGED <<timeVars, resolverVars, authVars, cmdVars>>

\* setApiTokenCommand: the user answers the input box
TokenEntered ==
    /\ tokenCmd.pc = "idle"
    /\ \E token \in TokenInputs :
           /\ tokenCmd' = tokenEntered(token)
           /\ ui' = ui \o <<Answer(token)>>
    /\ UNCHANGED cmd
    /\ UNCHANGED <<view, panel, refreshes, branchHandlers, tokenLoad,
                   submission>>
    /\ UNCHANGED <<timeVars, resolverVars, authVars, apiVars>>

\* setApiTokenCommand: authManager.setApiToken(token.trim()) settles
TokenStored ==
    /\ tokenCmd.pc = "setApiToken"
    /\ \E r \in {setApiToken(secret, secretFails,
                             Str(trim(tokenCmd.input.chars)))} :
       \E step \in {tokenStored(tokenCmd, r)} :
           /\ secret' = r.secret
           /\ tokenCmd' = step.cmd
           /\ ui' = ui \o step.ui
    /\ UNCHANGED <<secretFails, aop, aret, hadFailedRead>>
    /\ UNCHANGED cmd
    /\ UNCHANGED <<view, panel, refreshes, branchHandlers, tokenLoad,
                   submission>>
    /\ UNCHANGED <<timeVars, resolverVars, apiVars>>

\* setApiTokenCommand: apiClient.setAuthToken(token.trim()) and the
\* success message
ClientTokenSet ==
    /\ tokenCmd.pc = "setAuthToken"
    /\ authToken' = Str(trim(tokenCmd.input.chars))
    /\ lastSet' = Str(trim(tokenCmd.input.chars))
    /\ tokenCmd' = [tokenCmd EXCEPT !.pc = "done", !.outcome = "saved"]
    /\ ui' = ui \o <<UIEvent("showInformationMessage",
                             \* ' API token saved successfully'
                             <<CheckMark>> \o <<" ", "A", "P", "I", " ", "t",
                                 "o", "k", "e", "n", " ", "s", "a", "v", "e",
                                 "d", " ", "s", "u", "c", "c", "e", "s", "s",
                                 "f", "u", "l", "l", "y">>, <<>>)>>
    /\ UNCHANGED cmd
    /\ UNCHANGED <<baseUrl, http, apiop, apiret>>
    /\ UNCHANGED <<view, panel, refreshes, branchHandlers, tokenLoad,
                   submission>>
    /\ UNCHANGED <<timeVars, resolverVars, authVars>>

\* addTimeLogCommand: the token check, which reads the secret storage
TokenChecked ==
    /\ submission.pc = "idle"
    /\ \E r \in {getApiToken(secret, secretFails)} :
           submission' =
               IF Truthy(r.value)
               THEN [pc |-> "addTimeLog", token |-> r.value]
               ELSE [pc |-> "done", token |-> r.value, called |-> FALSE]
    /\ UNCHANGED <<view, panel, refreshes, branchHandlers, tokenLoad,
                   tokenCmd>>
    /\ UNCHANGED <<timeVars, resolverVars, authVars, cmdVars, apiVars>>

\* addTimeLogCommand: after the prompts, apiClient.addTimeLog is called and
\* the server accepts the request, if one is issued
TimeLogSubmitted ==
    /\ submission.pc = "addTimeLog"
    /\ \E r \in {addTimeLog(baseUrl, authToken, <<"A", "-", "1">>,
                            [time_log |-> [minutes |-> 15,
                                           note |-> undefined]],
                            Response(200, <<"O", "K">>, null))} :
           /\ http' = http \o r.requests
           /\ submission' =
                  [pc |-> "done", token |-> submission.token,
                   called |-> TRUE, stored |-> secret,
                   outcome |-> r.outcome,
                   error |-> IF r.outcome = "rejected" THEN r.error ELSE <<>>,
                   requests |-> r.requests]
    /\ UNCHANGED <<baseUrl, authToken, lastSet, apiop, apiret>>
    /\ UNCHANGED <<view, panel, refreshes, branchHandlers, tokenLoad,
                   tokenCmd>>
    /\ UNCHANGED <<timeVars, resolverVars, authVars, cmdVars>>

TokenNext ==
    \/ TokenRead
    \/ TokenLoaded
    \/ TokenEntered
    \/ TokenStored
    \/ ClientTokenSet
    \/ TokenChecked
    \/ TimeLogSubmitted
    \/ SecretStorageChanges

TokenSpec == TokenInit /\ [][TokenNext]_vars

\* C28: after setApiTokenCommand has completed with input T, the secret
\* storage and the API client both hold trim(T), however the token load of
\* activate is interleaved with it; and whenever the token check of
\* addTimeLogCommand has passed, the apiClient.addTimeLog call that
\* follows does not fail with 'API token not set' and carries the stored
\* token.
C28_ClientTokenIsStoredToken ==
    /\ (tokenCmd.pc = "done" /\ tokenCmd.outcome = "saved") =>
           /\ secret = Trimmed(tokenCmd.input)
           /\ authToken = Trimmed(tokenCmd.input)
    /\ (submission.pc = "done" /\ submission.called) =>
           \* 'API token not set'
           /\ ~Includes(submission.error, <<"A", "P", "I", " ", "t", "o",
               "k", "e", "n", " ", "n", "o", "t", " ", "s", "e", "t">>)
           /\ Len(submission.requests) = 1
           /\ submission.requests[1].authorization =
                  <<"B", "e", "a", "r", "e", "r",
                    " ">> \o submission.stored.chars


(***************************************************************************)
(* The status bar item and the hasActiveTask context.  Here a read of the  *)
(* workspace state may throw, which is the one way getCurrentTaskId of     *)
(* the resolver can reject: getTaskIdFromGitBranch catches every error,    *)
(* a rejected update is caught by getCurrentTaskId, and its catch block    *)
(* reads the workspace state again.                                        *)
(***************************************************************************)
\* getCurrentTaskId when workspaceState.get throws or not: the read happens
\* only with an extension context and without a task ID from the branch
getCurrentTaskIdOrThrow(g, ctx, stored, getThrows) ==
    LET r == getCurrentTaskId(g, ctx, stored)
    IN IF getThrows /\ ctx /\ ~Truthy(r.branchTaskId)
       THEN [outcome |-> "rejected", value |-> undefined,
             branchTaskId |-> r.branchTaskId, stored |-> stored]
       ELSE r

\* activate has created the status bar item; its first updateStatusBar has
\* not completed yet
StatusBarInit ==
    /\ git \in SwitchTargets
    /\ typed = undefined
    /\ hasContext \in BOOLEAN
    /\ workspaceState \in StoredValues
    /\ statusBar = NewStatusBarItem
    /\ currentBranch = <<>>
    /\ rop = "none"
    /\ rret = NoReturn
    /\ manual = null
    /\ ResolverOnly

\* updateStatusBar completes: the call of activate itself, or the call of
\* updateCurrentBranch after the branch name changed
UpdateStatusBar ==
    /\ \/ rop = "none" /\ UNCHANGED currentBranch
       \/ /\ rop # "none"
          /\ HeadName(git) # currentBranch /\ HeadName(git) # <<>>
          /\ currentBranch' = HeadName(git)
    /\ \E getThrows \in BOOLEAN :
       \E r \in {getCurrentTaskIdOrThrow(git, hasContext, workspaceState,
                                         getThrows)} :
           /\ workspaceState' = r.stored
           /\ statusBar' = statusBarAfter(r, statusBar)
           /\ rop' = "updateStatusBar"
           /\ rret' = [outcome |-> r.outcome, value |-> r.value, git |-> git,
                       before |-> statusBar]
    /\ UNCHANGED <<git, hasContext, typed, manual>>
    /\ UNCHANGED <<timeVars, authVars, cmdVars, apiVars, extVars>>

StatusBarNext ==
    \/ UpdateStatusBar
    \/ SwitchBranch

StatusBarSpec == StatusBarInit /\ [][StatusBarNext]_vars

\* C29: after every completed updateStatusBar the status bar item is
\* visible exactly when the hasActiveTask context is true; it is visible
\* with a text containing X when getCurrentTaskId returned the task ID X,
\* and hidden with the context false when getCurrentTaskId returned null
\* or failed.
C29_StatusBarAgreesWithContext ==
    rop = "updateStatusBar" =>
        /\ statusBar.visible <=> statusBar.hasActiveTask
        /\ (rret.outcome = "resolved" /\ Truthy(rret.value)) =>
               /\ statusBar.visible
               /\ Includes(statusBar.text, rret.value.chars)
        /\ (rret.outcome = "rejected" \/ ~Truthy(rret.value)) =>
               /\ ~statusBar.visible
               /\ ~statusBar.hasActiveTask

====
